---- MODULE Spec2Model ----
(***************************************************************************)
(* Model of the Flirrt load-testing harness.                               *)
(*                                                                         *)
(*   Backend/production_load_testing.py  ProductionLoadTester              *)
(*       run_load_test, user_simulation, single_request_test,              *)
(*       analyze_load_test_results, calculate_performance_grade,           *)
(*       generate_performance_recommendations,                             *)
(*       run_comprehensive_load_test_suite,                                *)
(*       generate_comprehensive_load_report, analyze_scalability,          *)
(*       assess_production_readiness                                       *)
(*   Backend/advanced_ai_service.py      AdvancedFlirrtAI                  *)
(*       hybrid_analysis                                                   *)
(*   Tests/iterative_testing_system.py   IterativeTestingSystem            *)
(*       run_single_test, enhanced_quality_scoring,                        *)
(*       score_gender_appropriateness, score_context_awareness,            *)
(*       generate_comprehensive_report,                                    *)
(*       run_iterative_improvement_cycle,                                  *)
(*       generate_improvement_cycle_report                                 *)
(*   Tests/dataset_builder.py            FlirrtDatasetBuilder              *)
(*       quality_score_suggestion                                          *)
(*                                                                         *)
(* Spec       : one run_load_test call; the main thread, the thread pool   *)
(*              and every user_simulation worker are interleaved.          *)
(* FairSpec   : Spec with the fairness thread scheduling gives.            *)
(* RunnerSpec : single_request_test / run_single_test applied to every     *)
(*              provider outcome of a bounded shape.                       *)
(* ReportSpec : the report functions applied to drawn batches of results,  *)
(*              and the load-test suite over its four levels.              *)
(* ScoreSpec  : the scoring of one suggestion text against a rubric.       *)
(* HybridSpec : one hybrid_analysis call, step by step through its         *)
(*              provider calls, and the record the load tester makes of it.*)
(* CycleSpec  : one run_iterative_improvement_cycle call over every        *)
(*              pattern of failed and successful iterations.               *)
(***************************************************************************)
EXTENDS Integers, Sequences, FiniteSets, TLC

\* ---------------------------------------------------------------- bounds
\* Largest concurrent_users / requests_per_user a configuration is drawn from.
MaxUsers == 2
MaxRequests == 2
\* Largest concurrent_users * requests_per_user, the number of requests of a
\* run, a configuration is drawn with.
MaxTotalRequests == 4
\* Largest number of successful results of one response time, and of failed
\* results of one error message, a batch is drawn with.
MaxPerLatency == 3
MaxFail == 2
\* Largest number of run_single_test results a test report is drawn with.
MaxTests == 4

\* ------------------------------------------------------ program constants
\* hybrid_analysis returns final_suggestions[:3].
FinalCap == 3

\* Python's None.
None == "None"

VARIABLES
    config,          \* LoadTestConfig of the run (concurrent_users, requests_per_user)
    main_pc,         \* position of the thread running run_load_test
    next_user,       \* user_id the submit loop hands to the executor next
    pc,              \* pc[u]: position of the future / worker running user_simulation(u)
    req_num,         \* req_num[u]: request_num of u's for-loop
    user_results,    \* user_results[u]: the worker's local list
    provider_calls,  \* provider_calls[u][k]: hybrid_analysis calls made for user_u_req_k
    all_results,     \* the list run_load_test collects into
    collected,       \* futures as_completed has already yielded
    failed_log,      \* users for which "User failed" was printed
    analysis,        \* what analyze_load_test_results returned
    deadline_passed, \* elapsed time of the run exceeds config.test_duration_seconds
    late_workers,    \* the workers that were in flight at that moment
    t_pc,            \* test runner call: "idle", "ready", "returned", "escaped"
    t_runner,        \* which runner was called
    t_image_ok,      \* whether the image file of run_single_test can be read
    t_outcome,       \* what hybrid_analysis does on that call
    t_result,        \* the record the runner returned
    a_pc,            \* analyze_load_test_results call: "idle", "ready", "returned", "raised"
    batch,           \* its results argument
    batch_config,    \* its config argument
    total_duration,  \* its total_duration argument
    load_report,     \* what it returned
    s_pc,            \* run_comprehensive_load_test_suite: "idle", "levels", "report", "done"
    level_order,     \* the order test_configs lists the load levels in
    level_idx,       \* how many levels the suite loop has been through
    suite_results,   \* suite_results, as <<test_name, entry>> pairs in insertion order
    suite_report,    \* what generate_comprehensive_load_report returned
    g_pc,            \* generate_comprehensive_report call: "idle", "ready", "returned"
    test_results,    \* its all_results argument
    test_report,     \* what it returned
    q_pc,            \* enhanced_quality_scoring call: "idle", "ready", "returned"
    q_text,          \* suggestion["text"], as a sequence of code points
    q_rubric,        \* expected_themes of the scenario and the context's fields
    q_scores,        \* combined_scores and suggestion_score of that suggestion
    h_pc,            \* hybrid_analysis call: "idle", "primary", "enhance", "fallback",
                     \* "combine", "returned", "recorded"
    h_calls,         \* the analyze_with_* calls made so far, in order
    h_gpt,           \* gpt_result
    h_secondary,     \* grok_result or gemini_result
    h_results,       \* the results dict
    h_all,           \* all_suggestions
    h_record,        \* what single_request_test returned for this call
    report_files,    \* the documents run_load_test wrote to results_dir
    c_pc,            \* run_iterative_improvement_cycle: "idle", "loop", "done", "raised"
    c_iterations,    \* its iterations argument
    c_iteration,     \* the loop variable iteration
    iteration_results, \* the iteration_data recorded so far
    c_failed,        \* the iterations reported as failed
    c_exception,     \* the exception that left the call, None when none did
    c_final_report   \* what the call returned

load_vars == <<config, main_pc, next_user, pc, req_num, user_results,
               provider_calls, all_results, collected, failed_log, analysis,
               deadline_passed, late_workers>>
runner_vars == <<t_pc, t_runner, t_image_ok, t_outcome, t_result>>
analysis_vars == <<a_pc, batch, batch_config, total_duration, load_report>>
suite_vars == <<s_pc, level_order, level_idx, suite_results, suite_report>>
test_report_vars == <<g_pc, test_results, test_report>>
report_vars == <<analysis_vars, suite_vars, test_report_vars>>
score_vars == <<q_pc, q_text, q_rubric, q_scores>>
hybrid_vars == <<h_pc, h_calls, h_gpt, h_secondary, h_results, h_all, h_record>>
file_vars == <<report_files>>
cycle_vars == <<c_pc, c_iterations, c_iteration, iteration_results, c_failed,
                c_exception, c_final_report>>
extra_vars == <<score_vars, hybrid_vars, cycle_vars, file_vars>>
vars == <<config, main_pc, next_user, pc, req_num, user_results,
          provider_calls, all_results, collected, failed_log, analysis,
          deadline_passed, late_workers,
          t_pc, t_runner, t_image_ok, t_outcome, t_result,
          a_pc, batch, batch_config, total_duration, load_report,
          s_pc, level_order, level_idx, suite_results, suite_report,
          g_pc, test_results, test_report,
          q_pc, q_text, q_rubric, q_scores,
          h_pc, h_calls, h_gpt, h_secondary, h_results, h_all, h_record,
          report_files,
          c_pc, c_iterations, c_iteration, iteration_results, c_failed,
          c_exception, c_final_report>>

\* ------------------------------------------------------ provider outcomes
\* What one suggestion record of final_suggestions carries under "text":
\* a string, JSON null, or no "text" key at all.
TextKinds == {"str", "null", "missing"}

\* final_suggestions: at most FinalCap suggestion records.
Payloads == UNION {[1..n -> TextKinds] : n \in 0..FinalCap}

\* hybrid_analysis either raises or returns a result holding final_suggestions.
ProviderRaises == [kind |-> "raise", final_suggestions |-> <<>>]
ProviderReturns(fs) == [kind |-> "ok", final_suggestions |-> fs]
Outcomes == {ProviderRaises} \cup {ProviderReturns(fs) : fs \in Payloads}

\* str(e) of the exception hybrid_analysis raised.
ProviderErrorMessage == "provider error"

\* f"user_{user_id}_req_{request_num}"
RequestIdWithoutWorker(user_id, request_num) == <<"user", 0, "req", request_num>>
RequestId(user_id, request_num) == <<"user", user_id, "req", request_num>>

\* -------------------------------------------------- single_request_test
SingleRequestTestAlwaysSuccess(outcome, request_id) ==
    IF outcome.kind = "ok"
    THEN [request_id |-> request_id,
          success |-> TRUE,
          error |-> None,
          suggestions_count |-> Len(outcome.final_suggestions)]
    ELSE [request_id |-> request_id,
          success |-> FALSE,
          error |-> ProviderErrorMessage,
          suggestions_count |-> 0]

SingleRequestTest(outcome, request_id) ==
    IF outcome.kind = "ok"
    THEN [request_id |-> request_id,
          success |-> Len(outcome.final_suggestions) > 0,
          error |-> None,
          suggestions_count |-> Len(outcome.final_suggestions)]
    ELSE [request_id |-> request_id,
          success |-> FALSE,
          error |-> ProviderErrorMessage,
          suggestions_count |-> 0]

\* result["user_id"] = user_id
WithUserId(result, user_id) ==
    [request_id |-> result.request_id,
     success |-> result.success,
     error |-> result.error,
     suggestions_count |-> result.suggestions_count,
     user_id |-> user_id]

\* ------------------------------------------------------- user_simulation
Users == 0..(config.concurrent_users - 1)

\* for request_num in range(config.requests_per_user): the loop is over.
LoopDoneOffByOne(k, cfg) == k >= cfg.requests_per_user - 1
LoopDone(k, cfg) == k >= cfg.requests_per_user

\* The call to single_request_test is synchronous: the worker waits in it.
AfterIssueFireAndForget(k) == [pc |-> "loop", req_num |-> k + 1]
AfterIssue(k) == [pc |-> "call", req_num |-> k]

\* The for-loop moves to the next request number whatever the result was.
NextRequestNumRetry(k, result) == IF result.success THEN k + 1 ELSE k
NextRequestNum(k, result) == k + 1

\* ---------------------------------------------------------- run_load_test
\* ThreadPoolExecutor(max_workers=config.concurrent_users)
MaxWorkersSerial(cfg) == 1
MaxWorkers(cfg) == cfg.concurrent_users

\* A worker occupies a pool thread from the start of user_simulation to its
\* return or raise.
ActiveStates == {"ramp", "loop", "call", "hung"}
Active == {u \in Users : pc[u] \in ActiveStates}
ActiveCount == Cardinality(Active)

\* The body of "for future in as_completed(futures)": extend on a result,
\* print on an exception.
CollectFutureOverwrite(all, state, results) ==
    IF state = "returned" THEN results ELSE all
CollectFuture(all, state, results) ==
    IF state = "returned" THEN all \o results ELSE all

\* Where run_load_test goes after one future was handled.
CollectNextPcPropagate(state) == IF state = "raised" THEN "raised" ELSE "collect"
CollectNextPc(state) == "collect"

\* ------------------------------------------------- analyze_load_test_results
Successful(results) == SelectSeq(results, LAMBDA r : r.success)
FailedResultsWithMessage(results) == SelectSeq(results, LAMBDA r : r.error # None)
FailedResults(results) == SelectSeq(results, LAMBDA r : ~r.success)

AnalyzeLoadTestResultsUnguarded(results) ==
    [error |-> None,
     total_requests |-> Len(results),
     successful_requests |-> Len(Successful(results)),
     failed_requests |-> Len(FailedResults(results))]
AnalyzeLoadTestResults(results) ==
    IF results = <<>>
    THEN [error |-> "No results to analyze"]
    ELSE [error |-> None,
          total_requests |-> Len(results),
          successful_requests |-> Len(Successful(results)),
          failed_requests |-> Len(FailedResults(results))]

NoAnalysis == [error |-> "not analyzed"]

\* ------------------------------------------------------------ error_types
\* The dict error_types as <<error, count>> pairs in insertion order, after
\* the first i failed results.
RECURSIVE ErrorTypesUpTo(_, _)
ErrorTypesUpTo(failed, i) ==
    IF i = 0 THEN <<>>
    ELSE LET prev == ErrorTypesUpTo(failed, i - 1)
             e == failed[i].error
         IN  IF \E j \in DOMAIN prev : prev[j][1] = e
             THEN [j \in DOMAIN prev |->
                      IF prev[j][1] = e THEN <<e, prev[j][2] + 1>> ELSE prev[j]]
             ELSE Append(prev, <<e, 1>>)
ErrorTypes(failed) == ErrorTypesUpTo(failed, Len(failed))

\* max(error_types.items(), key=lambda x: x[1])[0]: the first key, in
\* insertion order, with the largest count.
MostCommonError(error_types) ==
    LET best == CHOOSE j \in DOMAIN error_types :
                    /\ \A k \in DOMAIN error_types :
                           error_types[k][2] <= error_types[j][2]
                    /\ \A k \in 1..(j - 1) :
                           error_types[k][2] < error_types[j][2]
    IN  error_types[best][1]

\* most_common_error.lower() has no meaning for the key None.
RecommendationsRaise(error_types) ==
    error_types # <<>> /\ MostCommonError(error_types) = None

\* generate_performance_recommendations is called while the return value is
\* built: when it raises, analyze_load_test_results raises.
AnalysisRaises(results) ==
    results # <<>> /\ RecommendationsRaise(ErrorTypes(FailedResults(results)))

\* test_report of run_load_test, the document json.dump writes; the timestamp
\* is datetime.now().isoformat() at that moment.
RunName == "load_test"
TestReport(test_name, cfg, results, report) ==
    [test_name |-> test_name,
     config |-> cfg,
     results |-> results,
     analysis |-> report,
     timestamp |-> "now"]

\* ------------------------------------------------------- run_single_test
\* enhanced_quality_scoring calls suggestion.get("text", "").lower() on every
\* suggestion: a missing key falls back to "", JSON null has no lower().
EnhancedQualityScoringRaises(suggestions) ==
    \E i \in DOMAIN suggestions : suggestions[i] = "null"

\* status "returned": the dict run_single_test returned, error None when it has
\* no "error" key; status "escaped": the exception that left run_single_test.
RunSingleTest(image_ok, outcome) ==
    IF ~image_ok
    THEN [status |-> "returned", error |-> "Failed to encode image"]
    ELSE IF outcome.kind = "raise"
    THEN [status |-> "returned", error |-> "AI analysis failed"]
    ELSE IF EnhancedQualityScoringRaises(outcome.final_suggestions)
    THEN [status |-> "escaped", error |-> "AttributeError"]
    ELSE [status |-> "returned", error |-> None]

\* run_load_test only prints config.test_duration_seconds: the submit loop,
\* as_completed(futures) and the with-block never compare elapsed time to it.
DurationCutoffEnforced(passed) == passed
DurationCutoff(passed) == FALSE

\* ------------------------------------------------------------------ Init
Configs ==
    {cfg \in [concurrent_users : 0..MaxUsers, requests_per_user : 0..MaxRequests] :
        cfg.concurrent_users * cfg.requests_per_user <= MaxTotalRequests}

IdleAnalysis ==
    /\ a_pc = "idle"
    /\ batch = <<>>
    /\ batch_config = None
    /\ total_duration = 0
    /\ load_report = NoAnalysis

IdleSuite ==
    /\ s_pc = "idle"
    /\ level_order = <<>>
    /\ level_idx = 0
    /\ suite_results = <<>>
    /\ suite_report = NoAnalysis

IdleTestReport ==
    /\ g_pc = "idle"
    /\ test_results = <<>>
    /\ test_report = NoAnalysis

IdleScore ==
    /\ q_pc = "idle"
    /\ q_text = <<>>
    /\ q_rubric = None
    /\ q_scores = None

IdleHybrid ==
    /\ h_pc = "idle"
    /\ h_calls = <<>>
    /\ h_gpt = None
    /\ h_secondary = None
    /\ h_results = None
    /\ h_all = <<>>
    /\ h_record = None

NoFiles == report_files = <<>>

IdleCycle ==
    /\ c_pc = "idle"
    /\ c_iterations = 0
    /\ c_iteration = 0
    /\ iteration_results = <<>>
    /\ c_failed = {}
    /\ c_exception = None
    /\ c_final_report = None

IdleExtra == IdleScore /\ IdleHybrid /\ NoFiles /\ IdleCycle

IdleRunner ==
    /\ t_pc = "idle"
    /\ t_runner = None
    /\ t_image_ok = TRUE
    /\ t_outcome = ProviderRaises
    /\ t_result = [error |-> None]

Init ==
    /\ config \in Configs
    /\ main_pc = "start"
    /\ next_user = 0
    /\ pc = [u \in Users |-> "unsubmitted"]
    /\ req_num = [u \in Users |-> 0]
    /\ user_results = [u \in Users |-> <<>>]
    /\ provider_calls =
           [u \in Users |-> [k \in 0..(config.requests_per_user - 1) |-> 0]]
    /\ all_results = <<>>
    /\ collected = {}
    /\ failed_log = {}
    /\ analysis = NoAnalysis
    /\ deadline_passed = FALSE
    /\ late_workers = {}
    /\ IdleRunner
    /\ IdleAnalysis
    /\ IdleSuite
    /\ IdleTestReport
    /\ IdleExtra

\* ------------------------------------------------- actions of the main thread
\* ramp_up_delay = config.ramp_up_seconds / config.concurrent_users, then
\* ThreadPoolExecutor(max_workers=...): both raise when concurrent_users is 0.
Start ==
    /\ main_pc = "start"
    /\ main_pc' = IF config.concurrent_users = 0 THEN "raised" ELSE "submit"
    /\ UNCHANGED <<deadline_passed, late_workers,
                   config, next_user, pc, req_num, user_results, provider_calls,
                   all_results, collected, failed_log, analysis>>
    /\ UNCHANGED <<runner_vars, report_vars, extra_vars>>

\* executor.submit(self.user_simulation, user_id, config, start_delay)
Submit ==
    /\ main_pc = "submit"
    /\ next_user < config.concurrent_users
    /\ pc' = [pc EXCEPT ![next_user] = "queued"]
    /\ next_user' = next_user + 1
    /\ main_pc' = IF next_user + 1 = config.concurrent_users
                  THEN "collect" ELSE "submit"
    /\ UNCHANGED <<deadline_passed, late_workers,
                   config, req_num, user_results, provider_calls,
                   all_results, collected, failed_log, analysis>>
    /\ UNCHANGED <<runner_vars, report_vars, extra_vars>>

\* One iteration of "for future in as_completed(futures)".
Collect(u) ==
    /\ main_pc = "collect"
    /\ u \notin collected
    /\ pc[u] \in {"returned", "raised"}
    /\ all_results' = CollectFuture(all_results, pc[u], user_results[u])
    /\ failed_log' = IF pc[u] = "raised" THEN failed_log \cup {u} ELSE failed_log
    /\ collected' = collected \cup {u}
    /\ main_pc' = CollectNextPc(pc[u])
    /\ UNCHANGED <<deadline_passed, late_workers,
                   config, next_user, pc, req_num, user_results,
                   provider_calls, analysis>>
    /\ UNCHANGED <<runner_vars, report_vars, extra_vars>>

\* Wall-clock time goes on while the run is in progress: from some moment on
\* time.time() - start_time exceeds config.test_duration_seconds.
DeadlinePasses ==
    /\ main_pc \in {"submit", "collect"}
    /\ ~deadline_passed
    /\ deadline_passed' = TRUE
    /\ late_workers' = Active
    /\ UNCHANGED <<config, main_pc, next_user, pc, req_num, user_results,
                   provider_calls, all_results, collected, failed_log, analysis>>
    /\ UNCHANGED <<runner_vars, report_vars, extra_vars>>

\* as_completed is exhausted and the with-block is left.
ExitPool ==
    /\ main_pc = "collect"
    /\ collected = Users \/ DurationCutoff(deadline_passed)
    /\ main_pc' = "analyze"
    /\ UNCHANGED <<deadline_passed, late_workers,
                   config, next_user, pc, req_num, user_results, provider_calls,
                   all_results, collected, failed_log, analysis>>
    /\ UNCHANGED <<runner_vars, report_vars, extra_vars>>

\* analysis = self.analyze_load_test_results(all_results, config, total_duration),
\* then the report is saved and the analysis returned.  When the analysis
\* raises, the exception leaves run_load_test there: nothing is assigned to
\* analysis and no report is written.
Analyze ==
    /\ main_pc = "analyze"
    /\ IF AnalysisRaises(all_results)
       THEN /\ main_pc' = "raised"
            /\ UNCHANGED <<analysis, report_files>>
       ELSE /\ analysis' = AnalyzeLoadTestResults(all_results)
            /\ report_files' =
                   Append(report_files,
                          TestReport(RunName, config, all_results,
                                     AnalyzeLoadTestResults(all_results)))
            /\ main_pc' = "done"
    /\ UNCHANGED <<deadline_passed, late_workers,
                   config, next_user, pc, req_num, user_results, provider_calls,
                   all_results, collected, failed_log>>
    /\ UNCHANGED <<runner_vars, report_vars, score_vars, hybrid_vars, cycle_vars>>

\* ----------------------------------------------------- actions of a worker
\* A pool thread takes the oldest queued work item.
PoolStart(u) ==
    /\ pc[u] = "queued"
    /\ \A v \in Users : pc[v] = "queued" => u <= v
    /\ ActiveCount < MaxWorkers(config)
    /\ pc' = [pc EXCEPT ![u] = "ramp"]
    /\ UNCHANGED <<deadline_passed, late_workers,
                   config, main_pc, next_user, req_num, user_results,
                   provider_calls, all_results, collected, failed_log, analysis>>
    /\ UNCHANGED <<runner_vars, report_vars, extra_vars>>

\* time.sleep(start_delay); user_results = []
RampDone(u) ==
    /\ pc[u] = "ramp"
    /\ pc' = [pc EXCEPT ![u] = "loop"]
    /\ UNCHANGED <<deadline_passed, late_workers,
                   config, main_pc, next_user, req_num, user_results,
                   provider_calls, all_results, collected, failed_log, analysis>>
    /\ UNCHANGED <<runner_vars, report_vars, extra_vars>>

\* self.single_request_test(context, request_id) calls hybrid_analysis.
IssueRequest(u) ==
    /\ pc[u] = "loop"
    /\ ~LoopDone(req_num[u], config)
    /\ req_num[u] \in DOMAIN provider_calls[u]
    /\ provider_calls' =
           [provider_calls EXCEPT ![u][req_num[u]] = @ + 1]
    /\ pc' = [pc EXCEPT ![u] = AfterIssue(req_num[u]).pc]
    /\ req_num' = [req_num EXCEPT ![u] = AfterIssue(req_num[u]).req_num]
    /\ UNCHANGED <<deadline_passed, late_workers,
                   config, main_pc, next_user, user_results,
                   all_results, collected, failed_log, analysis>>
    /\ UNCHANGED <<runner_vars, report_vars, extra_vars>>

\* hybrid_analysis returns or raises inside single_request_test; the result
\* is appended to user_results, the worker sleeps 0.1 s and the for-loop takes
\* the next request_num.
ProviderReturn(u) ==
    /\ pc[u] = "call"
    /\ \E outcome \in Outcomes :
           LET result == WithUserId(
                   SingleRequestTest(outcome, RequestId(u, req_num[u])), u)
           IN  /\ user_results' = [user_results EXCEPT ![u] = Append(@, result)]
               /\ req_num' = [req_num EXCEPT ![u] = NextRequestNum(@, result)]
    /\ pc' = [pc EXCEPT ![u] = "loop"]
    /\ UNCHANGED <<deadline_passed, late_workers,
                   config, main_pc, next_user, provider_calls,
                   all_results, collected, failed_log, analysis>>
    /\ UNCHANGED <<runner_vars, report_vars, extra_vars>>

\* hybrid_analysis never returns: nothing in single_request_test ends the wait.
ProviderHang(u) ==
    /\ pc[u] = "call"
    /\ pc' = [pc EXCEPT ![u] = "hung"]
    /\ UNCHANGED <<deadline_passed, late_workers,
                   config, main_pc, next_user, req_num, user_results,
                   provider_calls, all_results, collected, failed_log, analysis>>
    /\ UNCHANGED <<runner_vars, report_vars, extra_vars>>

\* return user_results
Return(u) ==
    /\ pc[u] = "loop"
    /\ LoopDone(req_num[u], config)
    /\ pc' = [pc EXCEPT ![u] = "returned"]
    /\ UNCHANGED <<deadline_passed, late_workers,
                   config, main_pc, next_user, req_num, user_results,
                   provider_calls, all_results, collected, failed_log, analysis>>
    /\ UNCHANGED <<runner_vars, report_vars, extra_vars>>

\* An exception raised inside user_simulation, outside single_request_test
\* (which catches its own): the frame and its user_results list are dropped and
\* the future ends with the exception.
WorkerRaise(u) ==
    /\ pc[u] \in {"ramp", "loop"}
    /\ pc' = [pc EXCEPT ![u] = "raised"]
    /\ user_results' = [user_results EXCEPT ![u] = <<>>]
    /\ UNCHANGED <<deadline_passed, late_workers,
                   config, main_pc, next_user, req_num,
                   provider_calls, all_results, collected, failed_log, analysis>>
    /\ UNCHANGED <<runner_vars, report_vars, extra_vars>>

MainStep == Start \/ Submit \/ (\E u \in Users : Collect(u)) \/ ExitPool \/ Analyze

WorkerStep(u) ==
    PoolStart(u) \/ RampDone(u) \/ IssueRequest(u) \/ ProviderReturn(u)
        \/ Return(u)

Next ==
    \/ Start
    \/ Submit
    \/ \E u \in Users : Collect(u)
    \/ ExitPool
    \/ DeadlinePasses
    \/ Analyze
    \/ \E u \in Users : PoolStart(u)
    \/ \E u \in Users : RampDone(u)
    \/ \E u \in Users : IssueRequest(u)
    \/ \E u \in Users : ProviderReturn(u)
    \/ \E u \in Users : ProviderHang(u)
    \/ \E u \in Users : Return(u)
    \/ \E u \in Users : WorkerRaise(u)

Spec == Init /\ [][Next]_vars

\* Thread scheduling is fair to the main thread and to every worker; a provider
\* call that hangs and an exception inside a worker are not owed to anyone.
FairSpec ==
    /\ Spec
    /\ WF_vars(MainStep)
    /\ \A u \in 0..(MaxUsers - 1) : WF_vars(u \in Users /\ WorkerStep(u))

\* ------------------------------------------------------------ RunnerSpec
\* No load test is running; one runner call is made on a drawn provider
\* outcome and image.
InitRunner ==
    /\ config = [concurrent_users |-> 0, requests_per_user |-> 0]
    /\ main_pc = "idle"
    /\ next_user = 0
    /\ pc = [u \in {} |-> "unsubmitted"]
    /\ req_num = [u \in {} |-> 0]
    /\ user_results = [u \in {} |-> <<>>]
    /\ provider_calls = [u \in {} |-> <<>>]
    /\ all_results = <<>>
    /\ collected = {}
    /\ failed_log = {}
    /\ analysis = NoAnalysis
    /\ deadline_passed = FALSE
    /\ late_workers = {}
    /\ t_pc = "ready"
    /\ t_runner = None
    /\ t_image_ok \in BOOLEAN
    /\ t_outcome \in Outcomes
    /\ t_result = [error |-> None]
    /\ IdleAnalysis
    /\ IdleSuite
    /\ IdleTestReport
    /\ IdleExtra

\* ProductionLoadTester.single_request_test(context, request_id)
CallSingleRequestTest ==
    /\ t_pc = "ready"
    /\ t_runner' = "single_request_test"
    /\ t_result' = SingleRequestTest(t_outcome, RequestId(0, 0))
    /\ t_pc' = "returned"
    /\ UNCHANGED <<t_image_ok, t_outcome>>
    /\ UNCHANGED <<load_vars, report_vars, extra_vars>>

\* IterativeTestingSystem.run_single_test(image_path, scenario)
CallRunSingleTest ==
    /\ t_pc = "ready"
    /\ t_runner' = "run_single_test"
    /\ LET r == RunSingleTest(t_image_ok, t_outcome)
       IN  /\ t_result' = [error |-> r.error]
           /\ t_pc' = r.status
    /\ UNCHANGED <<t_image_ok, t_outcome>>
    /\ UNCHANGED <<load_vars, report_vars, extra_vars>>

NextRunner == CallSingleRequestTest \/ CallRunSingleTest

RunnerSpec == InitRunner /\ [][NextRunner]_vars

\* ================================================================ properties
Count(seq, P(_)) == Cardinality({i \in DOMAIN seq : P(seq[i])})
RequestNums == 0..(config.requests_per_user - 1)
NoWorkerRaised == \A u \in Users : pc[u] # "raised"
RunEnded == main_pc \in {"done", "raised"}
\* run_load_test has left the with-block of the executor: it is about to call
\* the analysis, has returned, or the analysis raised (with concurrent_users
\* = 0 it raised before there was a pool).
PoolLeft ==
    \/ main_pc \in {"analyze", "done"}
    \/ main_pc = "raised" /\ config.concurrent_users >= 1
ReportedTotal == IF analysis.error = None THEN analysis.total_requests ELSE 0
HasResultFor(seq, u, k) == \E i \in DOMAIN seq : seq[i].request_id = RequestId(u, k)

\* The requests the workers in S never completed.
RECURSIVE NeverCompleted(_)
NeverCompleted(S) ==
    IF S = {} THEN 0
    ELSE LET u == CHOOSE v \in S : TRUE
         IN  (config.requests_per_user - req_num[u]) + NeverCompleted(S \ {u})

\* C1: with concurrent_users = N >= 1 and requests_per_user = R >= 1, a run in
\* which no worker raised out of user_simulation has collected exactly N*R
\* results when it leaves the pool, one for every (worker, request number)
\* pair, whatever the interleaving and whatever the mix of provider successes
\* and failures.
C1_ExactlyNTimesR ==
    (/\ PoolLeft
     /\ config.concurrent_users >= 1
     /\ config.requests_per_user >= 1
     /\ NoWorkerRaised)
    => /\ Len(all_results) = config.concurrent_users * config.requests_per_user
       /\ \A u \in Users : \A k \in RequestNums :
              Count(all_results, LAMBDA r : r.request_id = RequestId(u, k)) = 1

\* Two workers with two requests each have been collected; the results hold
\* a success, a call that raised and a call that returned no suggestion.
C1_Witness ==
    /\ PoolLeft
    /\ config.concurrent_users >= 2
    /\ config.requests_per_user >= 2
    /\ NoWorkerRaised
    /\ \E i \in DOMAIN all_results : all_results[i].success
    /\ \E i \in DOMAIN all_results : all_results[i].error = ProviderErrorMessage
    /\ \E i \in DOMAIN all_results :
           ~all_results[i].success /\ all_results[i].error = None

\* C2: when a worker's user_simulation raised, the other workers are not
\* aborted: by the time run_load_test leaves the pool every other worker has
\* returned, has issued all requests_per_user requests, and all of their
\* results are in the collection handed to the analysis.
C2_OthersNotAborted ==
    (PoolLeft /\ \E u \in Users : pc[u] = "raised")
    => \A v \in Users : pc[v] # "raised" =>
           /\ pc[v] = "returned"
           /\ \A k \in RequestNums :
                  /\ provider_calls[v][k] >= 1
                  /\ HasResultFor(all_results, v, k)

\* One worker raised after its first request and was logged; the other
\* returned both of its results, which are in the collection.
C2_Witness ==
    /\ PoolLeft
    /\ config.requests_per_user >= 2
    /\ \E u \in Users : pc[u] = "raised" /\ u \in failed_log /\ req_num[u] >= 1
    /\ \E v \in Users :
           /\ pc[v] = "returned"
           /\ HasResultFor(all_results, v, 0)
           /\ HasResultFor(all_results, v, 1)

\* C3 (as claimed): a worker that raised after completing k requests leaves
\* those k results in the collection, and total_requests falls short of N*R by
\* exactly the requests that never completed.
C3_CompletedResultsKept ==
    main_pc = "done"
    => /\ \A u \in Users : pc[u] = "raised" =>
              Count(all_results, LAMBDA r : r.user_id = u) = req_num[u]
       /\ ReportedTotal =
              config.concurrent_users * config.requests_per_user
                - NeverCompleted({u \in Users : pc[u] = "raised"})

\* C4: under every interleaving, each result of a worker that returned is in
\* all_results exactly once and unmodified once its future was collected,
\* nothing else is in all_results, and no returned worker is left uncollected
\* when the pool is left.
C4_NoLossNoDuplicate ==
    /\ \A u \in Users : (u \in collected /\ pc[u] = "returned") =>
           \A i \in DOMAIN user_results[u] :
               Count(all_results, LAMBDA r : r = user_results[u][i]) = 1
    /\ \A i \in DOMAIN all_results :
           \E u \in collected :
               /\ pc[u] = "returned"
               /\ \E j \in DOMAIN user_results[u] : user_results[u][j] = all_results[i]
    /\ PoolLeft =>
           \A u \in Users : pc[u] = "returned" => u \in collected

\* Two workers returned results and the later-submitted one was collected
\* first; the two results of a worker differ.
C4_Witness ==
    /\ PoolLeft
    /\ Len(all_results) >= 4
    /\ all_results[1].user_id = 1
    /\ all_results[1].success # all_results[2].success
    /\ \E i \in DOMAIN all_results : all_results[i].user_id = 0

\* C5: a worker issues request k+1 to the provider only after its request k
\* has completed with a recorded result.
C5_SequentialPerWorker ==
    [][\A u \in Users : \A k \in RequestNums :
           (k >= 1 /\ provider_calls'[u][k] > provider_calls[u][k])
               => HasResultFor(user_results[u], u, k - 1)]_vars

\* A worker has its second request in flight while another worker has a
\* request in flight too.
C5_Witness ==
    \E u, v \in Users :
        /\ u # v
        /\ pc[u] = "call" /\ req_num[u] = 1 /\ provider_calls[u][1] = 1
        /\ pc[v] = "call"

\* C6: never more than concurrent_users workers are active, and a submitted
\* worker never has to wait for another one to finish: while one is queued the
\* pool has a free thread.
C6_BoundedNotSerialized ==
    /\ ActiveCount <= config.concurrent_users
    /\ \A u \in Users : pc[u] = "queued" => ActiveCount < MaxWorkers(config)

\* All concurrent_users >= 2 workers have a provider call in flight at once.
C6_Witness ==
    /\ config.concurrent_users >= 2
    /\ \A u \in Users : pc[u] = "call"

\* C7 (as claimed): no runner call ends with an exception, and on every
\* collaborator failure (the provider raised, the payload is one the runner
\* cannot process, the image cannot be encoded) the record returned is marked
\* failed and carries an error message.
CollaboratorFailure ==
    \/ t_outcome.kind = "raise"
    \/ /\ t_runner = "run_single_test"
       /\ \/ ~t_image_ok
          \/ \E i \in DOMAIN t_outcome.final_suggestions :
                 t_outcome.final_suggestions[i] = "null"

C7_NeverEscapes ==
    t_pc \in {"returned", "escaped"}
    => /\ t_pc = "returned"
       /\ CollaboratorFailure =>
              /\ t_result.error # None
              /\ t_runner = "single_request_test" => ~t_result.success

\* C8: when the provider call returned without raising, the recorded result
\* has success = TRUE exactly if at least one final suggestion came back, and
\* suggestions_count is the number of suggestions returned.
C8_SuccessIffSuggestions ==
    (/\ t_pc = "returned"
     /\ t_runner = "single_request_test"
     /\ t_outcome.kind = "ok")
    => /\ t_result.success <=> Len(t_outcome.final_suggestions) >= 1
       /\ t_result.suggestions_count = Len(t_outcome.final_suggestions)
       /\ t_result.error = None

\* The provider returned an empty list and the recorded result is a failure.
C8_Witness ==
    /\ t_pc = "returned"
    /\ t_runner = "single_request_test"
    /\ t_outcome = ProviderReturns(<<>>)
    /\ ~t_result.success
    /\ t_result.suggestions_count = 0

\* C9: every (worker, request number) pair gets at most one provider call and
\* exactly one once the worker returned; the i-th result of a worker is the one
\* of request number i-1, so a failed call is followed by the next number.
C9_NoRetry ==
    /\ \A u \in Users : \A k \in RequestNums : provider_calls[u][k] <= 1
    /\ \A u \in Users : \A i \in DOMAIN user_results[u] :
           user_results[u][i].request_id = RequestId(u, i - 1)
    /\ \A u \in Users : pc[u] = "returned" =>
           /\ Len(user_results[u]) = config.requests_per_user
           /\ \A k \in RequestNums : provider_calls[u][k] = 1

\* The first call of one worker raised and the first call of another returned
\* no suggestion; both were recorded as failed and followed by the second
\* request of the worker.
C9_Witness ==
    \E u, v \in Users :
        /\ Len(user_results[u]) >= 2 /\ Len(user_results[v]) >= 2
        /\ ~user_results[u][1].success
        /\ user_results[u][1].error = ProviderErrorMessage
        /\ ~user_results[v][1].success
        /\ user_results[v][1].error = None
        /\ user_results[u][2].request_id = RequestId(u, 1)
        /\ user_results[v][2].request_id = RequestId(v, 1)
        /\ provider_calls[u][0] = 1 /\ provider_calls[v][0] = 1

\* C10 (as claimed): a provider call that never responds is cut off by a
\* timeout, so the run still finishes.
C10_HungCallRunFinishes ==
    (\E u \in Users : pc[u] = "hung") ~> (main_pc = "done")

\* ---------------------------------------------------------------------
\* C11  config.test_duration_seconds is no cutoff: a worker that is in flight
\*      when the elapsed time exceeds it is not aborted, the run leaves the
\*      pool for the aggregation only when every worker has returned with all
\*      of its requests_per_user results or has raised, and the aggregation
\*      happens once, at the end: there is an analysis exactly when the run
\*      has returned.
C11_DurationNotEnforced ==
    /\ PoolLeft =>
           \A u \in Users :
               /\ pc[u] \in {"returned", "raised"}
               /\ pc[u] = "returned" =>
                      Len(user_results[u]) = config.requests_per_user
    /\ analysis # NoAnalysis <=> main_pc = "done"
    /\ late_workers # {} => deadline_passed

\* The deadline passed while a worker was in flight; that worker went on to
\* its last request and the run returned with its results.
C11_Witness ==
    /\ main_pc = "done"
    /\ deadline_passed
    /\ config.requests_per_user = MaxRequests
    /\ \E u \in late_workers :
           /\ pc[u] = "returned"
           /\ HasResultFor(all_results, u, MaxRequests - 1)

\* ---------------------------------------------------------------------
\* C12  A configuration with concurrent_users = 0 or requests_per_user = 0
\*      is rejected before the run starts: no worker is started and the run
\*      never gets to aggregate an empty batch.
C12_ZeroConfigRejected ==
    (config.concurrent_users = 0 \/ config.requests_per_user = 0) =>
        /\ \A u \in Users : pc[u] \in {"unsubmitted", "queued"}
        /\ main_pc \notin {"analyze", "done"}

\* =====================================================================
\* ReportSpec: the report functions applied to drawn inputs.
\*
\* Numbers.  Response times and durations are whole seconds.  A report
\* carries round(x, 3) of a float in thousandths and round(x, 2) in
\* hundredths, computed on the double as the code computes it.  The mean and
\* the success rate a single analysis compares with its targets are compared
\* as the fraction num/den the code divides.

Min2(a, b) == IF a <= b THEN a ELSE b
Max2(a, b) == IF a >= b THEN a ELSE b

\* ------------------------------------------------------------------------
\* Python floats.  The reports are computed in IEEE-754 binary64: "/" on two
\* ints and on two floats, "-" on two floats and the float literals of the
\* thresholds each give the double nearest to the exact value (ties to the
\* even mantissa), and round(x, ndigits) rounds the exact value of the
\* double x, so that round(77 / 80, 3) is 0.963 and round(107 / 40, 2) is
\* 2.67.  A float is kept as sgn * m * 2^e with m of MantissaBits bits, m a
\* natural number written in limbs of LimbBits bits, least significant
\* first, without leading zero limbs; zero has sgn 0.  Exponents stay far
\* from the subnormal and the overflow range for the numbers of a report.
MantissaBits == 53
LimbBits == 15
Limb == 2 ^ LimbBits

\* ---- natural numbers in limbs
SetMax(S) == CHOOSE x \in S : \A y \in S : y <= x

BigNorm(a) == SubSeq(a, 1, SetMax({0} \cup {i \in DOMAIN a : a[i] # 0}))

\* an int 0 <= n < 2^31, and back
BigFromInt(n) ==
    BigNorm(<<n % Limb, (n \div Limb) % Limb, n \div (Limb * Limb)>>)
LimbAt(a, i) == IF i <= Len(a) THEN a[i] ELSE 0
BigToInt(a) == LimbAt(a, 1) + Limb * LimbAt(a, 2) + Limb * Limb * LimbAt(a, 3)

\* a + b: the carry into the limb i comes from a lower limb j whose sum
\* overflows, through limbs whose sums are all Limb - 1.
BigAdd(a, b) ==
    LET n == Max2(Len(a), Len(b)) + 1
        sum(i) == LimbAt(a, i) + LimbAt(b, i)
        carry(i) ==
            IF \E j \in 1..(i - 1) :
                   /\ sum(j) >= Limb
                   /\ \A k \in (j + 1)..(i - 1) : sum(k) >= Limb - 1
            THEN 1 ELSE 0
    IN  BigNorm([i \in 1..n |-> (sum(i) + carry(i)) % Limb])

\* a - b for a >= b
BigSub(a, b) ==
    LET borrow(i) ==
            IF \E j \in 1..(i - 1) :
                   /\ a[j] < LimbAt(b, j)
                   /\ \A k \in (j + 1)..(i - 1) : a[k] <= LimbAt(b, k)
            THEN 1 ELSE 0
    IN  BigNorm([i \in DOMAIN a |->
                    (a[i] - LimbAt(b, i) - borrow(i) + 2 * Limb) % Limb])

\* a * k for 0 <= k <= Limb: the low halves of the products a[i] * k, plus
\* their high halves one limb up.
BigMulSmall(a, k) ==
    BigAdd([i \in DOMAIN a |-> (a[i] * k) % Limb],
           <<0>> \o [i \in DOMAIN a |-> (a[i] * k) \div Limb])

\* -1, 0, 1 as a < b, a = b, a > b
BigCmp(a, b) ==
    LET differ == {i \in DOMAIN a : a[i] # LimbAt(b, i)}
    IN  IF Len(a) < Len(b) THEN -1
        ELSE IF Len(a) > Len(b) THEN 1
        ELSE IF differ = {} THEN 0
        ELSE IF a[SetMax(differ)] < b[SetMax(differ)] THEN -1
        ELSE 1

\* the number of bits of a limb
SmallBitLen(n) ==
    CHOOSE k \in 0..LimbBits : n < 2 ^ k /\ (k = 0 \/ 2 ^ (k - 1) <= n)
BitLen(a) ==
    IF a = <<>> THEN 0 ELSE LimbBits * (Len(a) - 1) + SmallBitLen(a[Len(a)])
BigOdd(a) == a # <<>> /\ a[1] % 2 = 1

\* a * 2^n and a \div 2^n
Shl(a, n) ==
    IF a = <<>> THEN <<>>
    ELSE [i \in 1..(n \div LimbBits) |-> 0]
             \o BigMulSmall(a, 2 ^ (n % LimbBits))
Shr(a, n) ==
    LET skip == n \div LimbBits
        bits == 2 ^ (n % LimbBits)
    IN  BigNorm([i \in 1..(Len(a) - skip) |->
                    a[i + skip] \div bits
                        + (LimbAt(a, i + skip + 1) % bits) * (Limb \div bits)])

\* Division of a by a single limb d > 0: the remainder of the limbs from the
\* i-th up, and from it the i-th limb of the quotient.
RECURSIVE ShortRem(_, _, _)
ShortRem(a, d, i) ==
    IF i > Len(a) THEN 0 ELSE (ShortRem(a, d, i + 1) * Limb + a[i]) % d
ShortDivMod(a, d) ==
    [q |-> BigNorm([i \in DOMAIN a |->
                       (ShortRem(a, d, i + 1) * Limb + a[i]) \div d]),
     exact |-> ShortRem(a, d, 1) = 0]

\* Long division of a by d > 0 whose last limb is at least Limb / 2, a limb
\* of the quotient at a time from the most significant.  The limb is the
\* largest k with k * d <= r; the estimate from the two leading limbs of r
\* and the leading limb of d is at most two above it.
Fits(d, k, r) == BigCmp(BigMulSmall(d, k), r) <= 0
LimbFrom(r, d, estimate) ==
    IF Fits(d, estimate, r) THEN estimate
    ELSE IF Fits(d, estimate - 1, r) THEN estimate - 1
    ELSE estimate - 2
QuotientLimb(r, d) ==
    LimbFrom(r, d, Min2(Limb - 1, (LimbAt(r, Len(d) + 1) * Limb + LimbAt(r, Len(d)))
                                      \div d[Len(d)]))
\* The quotient q (most significant limb first) and the remainder r so far,
\* after the next limb k of the quotient.
TakeLimb(q, r, d, k) == [q |-> q \o <<k>>, r |-> BigSub(r, BigMulSmall(d, k))]
DivideLimb(q, r, d) == TakeLimb(q, r, d, QuotientLimb(r, d))
BringDown(higher, limb, d) ==
    DivideLimb(higher.q, BigNorm(<<limb>> \o higher.r), d)
RECURSIVE BigDivModFrom(_, _, _)
BigDivModFrom(a, d, i) ==
    IF i > Len(a) - Len(d) + 1
    THEN [q |-> <<>>, r |-> BigNorm(SubSeq(a, Max2(i, 1), Len(a)))]
    ELSE BringDown(BigDivModFrom(a, d, i + 1), a[i], d)
LeastFirst(qr) ==
    [q |-> BigNorm([i \in DOMAIN qr.q |-> qr.q[Len(qr.q) + 1 - i]]),
     exact |-> qr.r = <<>>]
LongDivModShifted(a, d, t) == LeastFirst(BigDivModFrom(Shl(a, t), Shl(d, t), 1))
LongDivMod(a, d) == LongDivModShifted(a, d, LimbBits - SmallBitLen(d[Len(d)]))
\* quotient of a by d > 0, and whether the division leaves no remainder
BigDivMod(a, d) ==
    IF Len(d) = 1 THEN ShortDivMod(a, d[1]) ELSE LongDivMod(a, d)

FloatZero == [sgn |-> 0, m |-> <<>>, e |-> 0]

\* The double nearest to sgn * (q + f) * 2^e, where 0 < f < 1 when sticky and
\* f = 0 otherwise (q then has two bits more than a mantissa): round to
\* nearest, ties to even.
\* keep is q without its drop lowest bits, c compares those bits with the
\* half, -1, 0 or 1; rounding up may carry into one more bit.
Carried(sgn, m, e) ==
    IF BitLen(m) > MantissaBits
    THEN [sgn |-> sgn, m |-> Shr(m, 1), e |-> e + 1]
    ELSE [sgn |-> sgn, m |-> m, e |-> e]
RoundKept(sgn, keep, c, sticky, e) ==
    Carried(sgn,
            IF c > 0 \/ (c = 0 /\ (sticky \/ BigOdd(keep)))
            THEN BigAdd(keep, <<1>>) ELSE keep,
            e)
DropBits(sgn, q, sticky, e, drop, keep) ==
    RoundKept(sgn, keep,
              BigCmp(BigSub(q, Shl(keep, drop)), Shl(<<1>>, drop - 1)),
              sticky, e + drop)
RoundToBits(sgn, q, sticky, e, drop) ==
    IF drop <= 0 THEN [sgn |-> sgn, m |-> Shl(q, -drop), e |-> e + drop]
    ELSE DropBits(sgn, q, sticky, e, drop, Shr(q, drop))
RoundBits(sgn, q, sticky, e) ==
    IF q = <<>> THEN FloatZero
    ELSE RoundToBits(sgn, q, sticky, e, BitLen(q) - MantissaBits)

\* The double nearest to sgn * (n / d) * 2^e, for naturals n and d > 0: the
\* quotient of n * 2^s by d has two bits more than a mantissa.
RoundQuotient(sgn, qr, e) == RoundBits(sgn, qr.q, ~qr.exact, e)
RoundRatioScaled(sgn, n, d, e, s) ==
    RoundQuotient(sgn, BigDivMod(Shl(n, s), d), e - s)
RoundRatio(sgn, n, d, e) ==
    IF n = <<>> THEN FloatZero
    ELSE RoundRatioScaled(sgn, n, d, e,
                          Max2(0, MantissaBits + 2 + BitLen(d) - BitLen(n)))

Sign(n) == IF n < 0 THEN -1 ELSE IF n > 0 THEN 1 ELSE 0
Magnitude(n) == IF n < 0 THEN -n ELSE n

\* n / d on two ints, d # 0; float(n) is n / 1; the literal 0.05 is 5 / 100.
TrueDiv(n, d) ==
    RoundRatio(Sign(n) * Sign(d), BigFromInt(Magnitude(n)),
               BigFromInt(Magnitude(d)), 0)

\* x / y on two floats, y # 0
FloatDiv(x, y) ==
    IF x.sgn = 0 THEN FloatZero
    ELSE RoundRatio(x.sgn * y.sgn, x.m, y.m, x.e - y.e)

\* x - y on two floats: on the mantissas a and b brought to the exponent e.
SubAligned(x, y, a, b, e) ==
    RoundBits(IF x.sgn # y.sgn \/ BigCmp(a, b) >= 0 THEN x.sgn ELSE -x.sgn,
              IF x.sgn # y.sgn THEN BigAdd(a, b)
              ELSE IF BigCmp(a, b) >= 0 THEN BigSub(a, b)
              ELSE BigSub(b, a),
              FALSE, e)
SubAt(x, y, e) == SubAligned(x, y, Shl(x.m, x.e - e), Shl(y.m, y.e - e), e)
FloatSub(x, y) ==
    IF y.sgn = 0 THEN x
    ELSE IF x.sgn = 0 THEN [y EXCEPT !.sgn = -y.sgn]
    ELSE SubAt(x, y, Min2(x.e, y.e))

\* -1, 0, 1 as x < y, x = y, x > y on two floats: of two floats of one sign
\* the one with the larger exponent has the larger magnitude, a mantissa
\* having MantissaBits bits.
FloatCmp(x, y) ==
    IF x.sgn # y.sgn THEN (IF x.sgn < y.sgn THEN -1 ELSE 1)
    ELSE IF x.sgn = 0 THEN 0
    ELSE IF x.e # y.e THEN (IF x.e < y.e THEN -x.sgn ELSE x.sgn)
    ELSE x.sgn * BigCmp(x.m, y.m)
FloatLe(x, y) == FloatCmp(x, y) <= 0
FloatLt(x, y) == FloatCmp(x, y) < 0

\* round(x, ndigits) in units of 10^-ndigits: the exact value of the double
\* rounded to ndigits decimals, an exact half to the even neighbour.
HalfEven(whole, c) ==
    BigToInt(whole) + (IF c > 0 \/ (c = 0 /\ BigOdd(whole)) THEN 1 ELSE 0)
RoundWhole(t, n, whole) ==
    HalfEven(whole, BigCmp(BigSub(t, Shl(whole, n)), Shl(<<1>>, n - 1)))
\* t / 2^n for n > 0, to the nearest integer
RoundShifted(t, n) == RoundWhole(t, n, Shr(t, n))
Round(x, ndigits) ==
    IF x.sgn = 0 THEN 0
    ELSE IF x.e >= 0
    THEN x.sgn * BigToInt(Shl(BigMulSmall(x.m, 10 ^ ndigits), x.e))
    ELSE x.sgn * RoundShifted(BigMulSmall(x.m, 10 ^ ndigits), -x.e)

\* round(n / d, ndigits) on two ints, n >= 0 and d > 0.  Let p be
\* n * 10^ndigits.  The double n / d, scaled by 10^ndigits, is within
\* (p / d) * 2^-53 of p / d; when p / d is not halfway between two integers
\* it is at least 1 / (2 * d) away from halfway, which is more as p < 2^52,
\* so the double rounds to the integer nearest to p / d.  When p / d is
\* halfway, the side the double lies on decides.
RoundDiv(n, d, ndigits) ==
    LET p == n * 10 ^ ndigits
        twice == 2 * (p % d)
    IN  IF twice < d THEN p \div d
        ELSE IF twice > d THEN p \div d + 1
        ELSE Round(TrueDiv(n, d), ndigits)

Fraction(n, d) == [num |-> n, den |-> d]

\* rate >= pct / 100
AtLeast(rate, pct) == 100 * rate.num >= pct * rate.den
\* avg <= target * (n / d)
AtMost(avg, target, n, d) == avg.num * d <= target * n * avg.den

SetMin(S) == CHOOSE x \in S : \A y \in S : x <= y

\* sorted(response_times)
RECURSIVE SortedFrom(_, _)
SortedFrom(s, vals) ==
    IF vals = {} THEN <<>>
    ELSE LET m == SetMin(vals)
         IN  SelectSeq(s, LAMBDA x : x = m) \o SortedFrom(s, vals \ {m})
Sorted(s) == SortedFrom(s, {s[i] : i \in DOMAIN s})

RECURSIVE SumTo(_, _)
SumTo(s, i) == IF i = 0 THEN 0 ELSE s[i] + SumTo(s, i - 1)
Sum(s) == SumTo(s, Len(s))

\* response_times = [r["response_time"] for r in successful_results]
ResponseTimes(results) ==
    LET ok == Successful(results)
    IN  [i \in 1..Len(ok) |-> ok[i].response_time]

\* statistics.mean(response_times), 0 for an empty sample
Mean(rt) == IF rt = <<>> THEN Fraction(0, 1) ELSE Fraction(Sum(rt), Len(rt))

\* statistics.median: the middle element of the sorted sample, the mean of
\* the two middle elements for an even size (the drawn times are even).
Median(rt) ==
    LET s == Sorted(rt)
        n == Len(rt)
    IN  IF n % 2 = 1 THEN s[n \div 2 + 1]
        ELSE (s[n \div 2] + s[n \div 2 + 1]) \div 2

\* sorted(response_times)[int(len(response_times) * 0.95)] if len > 1
\* else response_times[0]; pct is 95 or 99 (int(n * 0.95) = floor(95 n / 100)
\* for every n up to 400 in double arithmetic).
PercentileUnsorted(rt, pct) ==
    IF Len(rt) > 1 THEN rt[(Len(rt) * pct) \div 100 + 1] ELSE rt[1]
Percentile(rt, pct) ==
    IF Len(rt) > 1 THEN Sorted(rt)[(Len(rt) * pct) \div 100 + 1] ELSE rt[1]

SeqMin(s) == SetMin({s[i] : i \in DOMAIN s})
SeqMax(s) == CHOOSE x \in {s[i] : i \in DOMAIN s} : \A i \in DOMAIN s : s[i] <= x

\* The response_time_metrics block, all 0 without a successful result:
\* average in thousandths of a second, the others in seconds.
ResponseTimeMetrics(rt) ==
    IF rt = <<>>
    THEN [average |-> 0, median |-> 0, p95 |-> 0, p99 |-> 0, min |-> 0, max |-> 0]
    ELSE [average |-> RoundDiv(Sum(rt), Len(rt), 3),
          median |-> Median(rt),
          p95 |-> Percentile(rt, 95),
          p99 |-> Percentile(rt, 99),
          min |-> SeqMin(rt),
          max |-> SeqMax(rt)]

\* --------------------------------------------- calculate_performance_grade
SuccessScoreExclusive(rate) ==
    IF 100 * rate.num > 95 * rate.den THEN 50
    ELSE IF 100 * rate.num > 90 * rate.den THEN 40
    ELSE IF 100 * rate.num > 80 * rate.den THEN 30
    ELSE IF 100 * rate.num > 70 * rate.den THEN 20
    ELSE 10
SuccessScore(rate) ==
    IF AtLeast(rate, 95) THEN 50
    ELSE IF AtLeast(rate, 90) THEN 40
    ELSE IF AtLeast(rate, 80) THEN 30
    ELSE IF AtLeast(rate, 70) THEN 20
    ELSE 10

ResponseScore(avg, target) ==
    IF AtMost(avg, target, 1, 2) THEN 50
    ELSE IF AtMost(avg, target, 3, 4) THEN 40
    ELSE IF AtMost(avg, target, 1, 1) THEN 30
    ELSE IF AtMost(avg, target, 3, 2) THEN 20
    ELSE 10

GradeOf(total_score) ==
    IF total_score >= 90 THEN "A+ (Excellent)"
    ELSE IF total_score >= 80 THEN "A (Very Good)"
    ELSE IF total_score >= 70 THEN "B (Good)"
    ELSE IF total_score >= 60 THEN "C (Acceptable)"
    ELSE IF total_score >= 50 THEN "D (Poor)"
    ELSE "F (Failing)"

CalculatePerformanceGrade(success_rate, avg_response_time, cfg) ==
    GradeOf(SuccessScore(success_rate)
                + ResponseScore(avg_response_time, cfg.target_response_time))

\* The failure messages a batch is drawn with, str.lower() of each, and the
\* words the recommendation rules look for in the lower-cased message.
TimeoutMessage == "Request Timeout"
ApiMessage == "API error"
Lower(message) ==
    CASE message = TimeoutMessage -> "request timeout"
      [] message = ApiMessage -> "api error"
      [] OTHER -> message
Contains(text, word) ==
    <<text, word>> \in {<<"request timeout", "timeout">>, <<"api error", "api">>}

\* ----------------------------------- generate_performance_recommendations
SuccessRateCritical ==
    "CRITICAL: Success rate below 80%. Investigate error handling and API reliability."
ResponseTimeCritical ==
    "CRITICAL: Response time significantly exceeds target. Consider caching, model optimization, or infrastructure scaling."

SuccessRateAdvice(success_rate) ==
    IF ~AtLeast(success_rate, 80) THEN <<SuccessRateCritical>>
    ELSE IF ~AtLeast(success_rate, 90)
    THEN <<"Success rate below 90%. Improve error handling and fallback mechanisms.">>
    ELSE <<>>

ResponseTimeAdvice(avg, target) ==
    IF ~AtMost(avg, target, 2, 1) THEN <<ResponseTimeCritical>>
    ELSE IF ~AtMost(avg, target, 1, 1)
    THEN <<"Response time exceeds target. Optimize prompts, implement caching, or consider faster models.">>
    ELSE <<>>

ErrorAdvice(error_types) ==
    IF error_types = <<>> THEN <<>>
    ELSE LET lowered == Lower(MostCommonError(error_types))
         IN  IF Contains(lowered, "timeout")
             THEN <<"Implement timeout handling and retry mechanisms.">>
             ELSE IF Contains(lowered, "rate limit")
             THEN <<"Implement rate limiting and request queuing.">>
             ELSE IF Contains(lowered, "api")
             THEN <<"Improve API error handling and fallback strategies.">>
             ELSE <<>>

LoadAdvice(cfg) ==
    IF cfg.concurrent_users >= 50
    THEN <<"Consider implementing connection pooling and async processing for high-load scenarios.">>
    ELSE <<>>

GeneratePerformanceRecommendations(success_rate, avg, cfg, error_types) ==
    LET recommendations ==
            SuccessRateAdvice(success_rate)
                \o ResponseTimeAdvice(avg, cfg.target_response_time)
                \o ErrorAdvice(error_types)
                \o LoadAdvice(cfg)
    IN  IF recommendations = <<>>
        THEN <<"Performance is excellent! Continue monitoring and maintain current optimization level.">>
        ELSE recommendations

\* ------------------------------------------------- analyze_load_test_results
\* The dict analyze_load_test_results returns (error None: no "error" key);
\* throughput in hundredths of a request per second.
LoadTestAnalysis(results, cfg, duration) ==
    IF results = <<>> THEN AnalyzeLoadTestResults(results)
    ELSE
    LET counts == AnalyzeLoadTestResults(results)
        rt == ResponseTimes(results)
        success_rate ==
            Fraction(counts.successful_requests, counts.total_requests)
        avg_response_time == Mean(rt)
        error_types == ErrorTypes(FailedResults(results))
        response_time_compliance ==
            AtMost(avg_response_time, cfg.target_response_time, 1, 1)
        success_rate_compliance ==
            AtLeast(success_rate, cfg.target_success_rate)
    IN  [error |-> None,
         performance_summary |->
             [total_requests |-> counts.total_requests,
              successful_requests |-> counts.successful_requests,
              failed_requests |-> counts.failed_requests,
              success_rate |-> RoundDiv(success_rate.num, success_rate.den, 3),
              performance_grade |->
                  CalculatePerformanceGrade(success_rate, avg_response_time, cfg)],
         response_time_metrics |-> ResponseTimeMetrics(rt),
         throughput_metrics |->
             [requests_per_second |->
                  IF duration > 0
                  THEN RoundDiv(counts.total_requests, duration, 2) ELSE 0],
         target_compliance |->
             [response_time_compliance |-> response_time_compliance,
              success_rate_compliance |-> success_rate_compliance,
              overall_compliance |->
                  response_time_compliance /\ success_rate_compliance],
         error_analysis |->
             [error_types |-> error_types,
              most_common_error |->
                  IF error_types = <<>> THEN None
                  ELSE MostCommonError(error_types)],
         recommendations |->
             GeneratePerformanceRecommendations(
                 success_rate, avg_response_time, cfg, error_types)]

\* ------------------------------------------------------ batches of results
\* The response times (s) successful results are drawn with.
Times == <<2, 4, 6>>
\* Sample sizes beyond MaxPerLatency, for the percentile indices to leave
\* the last element: int(n * 0.95) < n - 1 from n = 21, int(n * 0.99) from 101.
BulkCounts == {18, 98}
FailureMessages == <<None, TimeoutMessage, ApiMessage>>

Repeat(x, n) == [i \in 1..n |-> x]
SuccessResult(t) == [success |-> TRUE, response_time |-> t, error |-> None]
FailureResult(e) == [success |-> FALSE, response_time |-> Times[3], error |-> e]

\* A batch with ok[i] successful results of response time Times[i] and
\* bad[i] failed results of error FailureMessages[i], slowest first.
BuildBatch(ok, bad) ==
    Repeat(SuccessResult(Times[3]), ok[3])
        \o Repeat(FailureResult(FailureMessages[1]), bad[1])
        \o Repeat(SuccessResult(Times[2]), ok[2])
        \o Repeat(FailureResult(FailureMessages[2]), bad[2])
        \o Repeat(FailureResult(FailureMessages[3]), bad[3])
        \o Repeat(SuccessResult(Times[1]), ok[1])

\* LoadTestConfig values: users, target_response_time (s),
\* target_success_rate (percent).
BatchConfigs ==
    {[concurrent_users |-> 5, target_response_time |-> 8, target_success_rate |-> 95],
     [concurrent_users |-> 50, target_response_time |-> 2, target_success_rate |-> 85]}
\* total_duration in seconds; over 40 s an odd number of requests gives a
\* throughput halfway between two hundredths.
Durations == {0, 40}

IdleLoad ==
    /\ config = [concurrent_users |-> 0, requests_per_user |-> 0]
    /\ main_pc = "idle"
    /\ next_user = 0
    /\ pc = [u \in {} |-> "unsubmitted"]
    /\ req_num = [u \in {} |-> 0]
    /\ user_results = [u \in {} |-> <<>>]
    /\ provider_calls = [u \in {} |-> <<>>]
    /\ all_results = <<>>
    /\ collected = {}
    /\ failed_log = {}
    /\ analysis = NoAnalysis
    /\ deadline_passed = FALSE
    /\ late_workers = {}

InitAnalysis ==
    /\ a_pc = "ready"
    /\ \E fast \in (0..MaxPerLatency) \cup BulkCounts :
       \E mid \in 0..MaxPerLatency :
       \E slow \in 0..MaxPerLatency :
       \E bad \in [1..3 -> 0..MaxFail] :
           batch = BuildBatch(<<fast, mid, slow>>, bad)
    /\ batch_config \in BatchConfigs
    /\ total_duration \in Durations
    /\ load_report = NoAnalysis

\* analysis = self.analyze_load_test_results(results, config, total_duration)
CallAnalyzeLoadTestResults ==
    /\ a_pc = "ready"
    /\ a_pc' = IF AnalysisRaises(batch) THEN "raised" ELSE "returned"
    /\ load_report' =
           IF AnalysisRaises(batch) THEN load_report
           ELSE LoadTestAnalysis(batch, batch_config, total_duration)
    /\ UNCHANGED <<batch, batch_config, total_duration>>
    /\ UNCHANGED <<load_vars, runner_vars, suite_vars, test_report_vars, extra_vars>>

\* -------------------------------------------------------- analyze_scalability
\* self.test_configs: users, target_response_time (s), target_success_rate
\* (percent) of the four named load levels.
TestConfigs ==
    [light_load |->
         [concurrent_users |-> 5, target_response_time |-> 5, target_success_rate |-> 95],
     moderate_load |->
         [concurrent_users |-> 20, target_response_time |-> 8, target_success_rate |-> 90],
     heavy_load |->
         [concurrent_users |-> 50, target_response_time |-> 12, target_success_rate |-> 85],
     stress_test |->
         [concurrent_users |-> 100, target_response_time |-> 20, target_success_rate |-> 80]]

\* successful_tests = {k: v for k, v in suite_results.items() if "error" not in v}
SuccessfulTests(results) == SelectSeq(results, LAMBDA kv : kv[2].error = None)

\* load_performance before the sort, in the order of successful_tests.
LoadPerformance(successful_tests) ==
    [i \in DOMAIN successful_tests |->
        LET test_name == successful_tests[i][1]
            results == successful_tests[i][2]
        IN  [test_name |-> test_name,
             concurrent_users |-> TestConfigs[test_name].concurrent_users,
             success_rate |-> results.performance_summary.success_rate,
             avg_response_time |-> results.response_time_metrics.average,
             throughput |-> results.throughput_metrics.requests_per_second]]

\* load_performance.sort(key=lambda x: x["concurrent_users"]): stable.
RECURSIVE InsertByUsers(_, _)
InsertByUsers(x, s) ==
    IF s = <<>> THEN <<x>>
    ELSE IF x.concurrent_users < Head(s).concurrent_users THEN <<x>> \o s
    ELSE <<Head(s)>> \o InsertByUsers(x, Tail(s))
RECURSIVE SortUpTo(_, _)
SortUpTo(s, i) ==
    IF i = 0 THEN <<>> ELSE InsertByUsers(s[i], SortUpTo(s, i - 1))
SortByLoadLevelSkipped(load_performance) == load_performance
SortByLoadLevel(load_performance) ==
    SortUpTo(load_performance, Len(load_performance))

\* The float literals of the scalability thresholds, each the double nearest
\* to the decimal written.
Decimals ==
    ("0.05" :> <<5, 100>>) @@ ("0.1" :> <<1, 10>>) @@ ("0.15" :> <<15, 100>>)
        @@ ("0.2" :> <<2, 10>>) @@ ("0.4" :> <<4, 10>>) @@ ("0.6" :> <<6, 10>>)
        @@ ("0.8" :> <<8, 10>>) @@ ("1.0" :> <<1, 1>>) @@ ("1.5" :> <<15, 10>>)
        @@ ("2.0" :> <<2, 1>>) @@ ("3.0" :> <<3, 1>>)
FloatLiteral ==
    [s \in DOMAIN Decimals |-> TrueDiv(Decimals[s][1], Decimals[s][2])]

\* calculate_scalability_grade, on the three floats.
ResponseTimePoints(response_time_increase) ==
    IF FloatLe(response_time_increase, FloatLiteral["1.5"]) THEN 40
    ELSE IF FloatLe(response_time_increase, FloatLiteral["2.0"]) THEN 30
    ELSE IF FloatLe(response_time_increase, FloatLiteral["3.0"]) THEN 20
    ELSE 10
SuccessRatePoints(success_rate_decrease) ==
    IF FloatLe(success_rate_decrease, FloatLiteral["0.05"]) THEN 30
    ELSE IF FloatLe(success_rate_decrease, FloatLiteral["0.1"]) THEN 20
    ELSE IF FloatLe(success_rate_decrease, FloatLiteral["0.2"]) THEN 10
    ELSE 0
ThroughputPoints(throughput_scaling) ==
    IF FloatLe(FloatLiteral["0.8"], throughput_scaling) THEN 30
    ELSE IF FloatLe(FloatLiteral["0.6"], throughput_scaling) THEN 20
    ELSE IF FloatLe(FloatLiteral["0.4"], throughput_scaling) THEN 10
    ELSE 0
CalculateScalabilityGrade(response_time_increase, success_rate_decrease, throughput_scaling) ==
    LET score == ResponseTimePoints(response_time_increase)
                     + SuccessRatePoints(success_rate_decrease)
                     + ThroughputPoints(throughput_scaling)
    IN  IF score >= 90 THEN "Excellent Scalability"
        ELSE IF score >= 75 THEN "Good Scalability"
        ELSE IF score >= 60 THEN "Acceptable Scalability"
        ELSE IF score >= 45 THEN "Poor Scalability"
        ELSE "Critical Scalability Issues"

\* generate_scalability_recommendations (the texts without their leading
\* symbol).
GenerateScalabilityRecommendations(response_time_increase, success_rate_decrease, throughput_scaling) ==
    LET recommendations ==
            (IF FloatLt(FloatLiteral["3.0"], response_time_increase)
             THEN <<"Response time degrades severely under load. Implement caching, optimize algorithms, or scale infrastructure.">>
             ELSE IF FloatLt(FloatLiteral["2.0"], response_time_increase)
             THEN <<"Response time increases significantly under load. Consider performance optimizations.">>
             ELSE <<>>)
            \o (IF FloatLt(FloatLiteral["0.15"], success_rate_decrease)
                THEN <<"Success rate drops significantly under load. Improve error handling and resource management.">>
                ELSE IF FloatLt(FloatLiteral["0.05"], success_rate_decrease)
                THEN <<"Success rate decreases under load. Strengthen error handling mechanisms.">>
                ELSE <<>>)
            \o (IF FloatLt(throughput_scaling, FloatLiteral["0.4"])
                THEN <<"Throughput scaling is poor. Consider horizontal scaling or async processing.">>
                ELSE IF FloatLt(throughput_scaling, FloatLiteral["0.6"])
                THEN <<"Throughput scaling could be improved. Optimize resource utilization.">>
                ELSE <<>>)
    IN  IF recommendations = <<>>
        THEN <<"Excellent scalability characteristics. System handles load well.">>
        ELSE recommendations

\* The dict analyze_scalability returns, from the sorted load_performance and
\* the three floats: the factors in hundredths, the decrease in thousandths.
ScalabilityAnalysis(load_performance, response_time_increase, success_rate_decrease, throughput_scaling) ==
    [load_performance_data |-> load_performance,
     response_time_increase_factor |-> Round(response_time_increase, 2),
     success_rate_decrease |-> Round(success_rate_decrease, 3),
     throughput_scaling_factor |-> Round(throughput_scaling, 2),
     scalability_grade |->
         IF Len(load_performance) > 1
         THEN CalculateScalabilityGrade(response_time_increase,
                                        success_rate_decrease,
                                        throughput_scaling)
         ELSE "Insufficient data",
     scalability_recommendations |->
         GenerateScalabilityRecommendations(response_time_increase,
                                            success_rate_decrease,
                                            throughput_scaling)]

\* The report keeps an average and a success rate in thousandths and a
\* throughput in hundredths; the floats the code reads back from it are the
\* doubles nearest to those decimals.
AnalyzeScalability(successful_tests) ==
    LET load_performance == SortByLoadLevel(LoadPerformance(successful_tests))
        first == load_performance[1]
        last == load_performance[Len(load_performance)]
        several == Len(load_performance) > 1
        response_time_increase ==
            IF several /\ first.avg_response_time > 0
            THEN FloatDiv(TrueDiv(last.avg_response_time, 1000),
                          TrueDiv(first.avg_response_time, 1000))
            ELSE FloatLiteral["1.0"]
        success_rate_decrease ==
            IF several
            THEN FloatSub(TrueDiv(first.success_rate, 1000),
                          TrueDiv(last.success_rate, 1000))
            ELSE FloatZero
        throughput_scaling ==
            IF several /\ first.throughput > 0
            THEN FloatDiv(TrueDiv(last.throughput, 100),
                          TrueDiv(first.throughput, 100))
            ELSE FloatLiteral["1.0"]
    IN  ScalabilityAnalysis(load_performance, response_time_increase,
                            success_rate_decrease, throughput_scaling)

\* -------------------------------------------------- assess_production_readiness
\* A level criterion: set True in the loop over successful_tests when the
\* entry of that level has the success rate (thousandths) and, where asked,
\* the target compliance.
LevelCriterionVacuous(successful_tests, level, min_rate, with_compliance) ==
    \A i \in DOMAIN successful_tests :
        successful_tests[i][1] = level =>
            /\ successful_tests[i][2].performance_summary.success_rate >= min_rate
            /\ with_compliance =>
                   successful_tests[i][2].target_compliance.overall_compliance
LevelCriterion(successful_tests, level, min_rate, with_compliance) ==
    \E i \in DOMAIN successful_tests :
        /\ successful_tests[i][1] = level
        /\ successful_tests[i][2].performance_summary.success_rate >= min_rate
        /\ with_compliance =>
               successful_tests[i][2].target_compliance.overall_compliance

SuccessRates(successful_tests) ==
    [i \in DOMAIN successful_tests |->
        successful_tests[i][2].performance_summary.success_rate]

ReadinessCriteria(successful_tests) ==
    [light_load_success |->
         LevelCriterion(successful_tests, "light_load", 950, TRUE),
     moderate_load_success |->
         LevelCriterion(successful_tests, "moderate_load", 900, TRUE),
     heavy_load_acceptable |->
         LevelCriterion(successful_tests, "heavy_load", 800, FALSE),
     stress_test_survival |->
         LevelCriterion(successful_tests, "stress_test", 700, FALSE),
     overall_reliability |->
         Sum(SuccessRates(successful_tests)) >= 850 * Len(successful_tests)]

CriteriaMet(criteria) ==
    Cardinality({k \in DOMAIN criteria : criteria[k]})

\* readiness_score = sum(criteria.values()) / len(criteria), in hundredths.
AssessProductionReadiness(successful_tests) ==
    LET readiness_criteria == ReadinessCriteria(successful_tests)
        readiness_score ==
            Fraction(CriteriaMet(readiness_criteria),
                     Cardinality(DOMAIN readiness_criteria))
    IN  [readiness_criteria |-> readiness_criteria,
         readiness_score |->
             RoundDiv(readiness_score.num, readiness_score.den, 2),
         readiness_level |->
             IF AtLeast(readiness_score, 80) THEN "PRODUCTION READY"
             ELSE IF AtLeast(readiness_score, 60) THEN "NEARLY READY"
             ELSE IF AtLeast(readiness_score, 40) THEN "NEEDS OPTIMIZATION"
             ELSE "NOT READY"]

\* ------------------------------------------ generate_comprehensive_load_report
\* The test counts of suite_summary, scalability_analysis and
\* production_readiness of the report; the overall means, performance_trend,
\* overall_assessment and optimization_priorities are left out.
GenerateComprehensiveLoadReport(results) ==
    LET successful_tests == SuccessfulTests(results)
    IN  IF successful_tests = <<>>
        THEN [error |-> "No successful load tests to analyze"]
        ELSE [error |-> None,
              suite_summary |->
                  [total_tests |-> Len(results),
                   successful_tests |-> Len(successful_tests),
                   failed_tests |-> Len(results) - Len(successful_tests)],
              scalability_analysis |-> AnalyzeScalability(successful_tests),
              production_readiness |-> AssessProductionReadiness(successful_tests)]

\* ------------------------------------------- run_comprehensive_load_test_suite
\* What the run of one level collected: the batch of results and the duration.
LevelRun(n_ok, t, n_bad, e, seconds) ==
    [results |-> Repeat(SuccessResult(t), n_ok) \o Repeat(FailureResult(e), n_bad),
     total_duration |-> seconds]

LevelRuns ==
    {LevelRun(20, 2, 0, TimeoutMessage, 10),
     LevelRun(19, 6, 1, TimeoutMessage, 20),
     LevelRun(9, 4, 1, ApiMessage, 10),
     LevelRun(4, 9, 1, TimeoutMessage, 10),
     LevelRun(7, 3, 3, ApiMessage, 10),
     LevelRun(0, 0, 2, TimeoutMessage, 10),
     LevelRun(1, 2, 0, TimeoutMessage, 300),
     LevelRun(0, 0, 0, None, 10),
     LevelRun(1, 2, 2, None, 10)}

\* analysis = self.run_load_test(test_name, config): the analysis of what the
\* run collected, or the exception analyze_load_test_results raised.
RunLoadTest(run, cfg) ==
    IF AnalysisRaises(run.results)
    THEN [kind |-> "raise",
          message |-> "'NoneType' object has no attribute 'lower'"]
    ELSE [kind |-> "return",
          analysis |-> LoadTestAnalysis(run.results, cfg, run.total_duration)]

\* run_load_test saves test_report after the analysis returned; an exception
\* of the analysis leaves run_load_test before the file is opened.
SaveReport(files, test_name, cfg, run, outcome) ==
    IF outcome.kind = "raise" THEN files
    ELSE Append(files, TestReport(test_name, cfg, run.results, outcome.analysis))

\* The entry the loop body leaves in suite_results[test_name]: the analysis,
\* or {"error": str(e)} when run_load_test raised or the analysis has no
\* "performance_summary" (KeyError).
SuiteEntry(outcome) ==
    IF outcome.kind = "raise" THEN [error |-> outcome.message]
    ELSE IF outcome.analysis.error # None THEN [error |-> "'performance_summary'"]
    ELSE outcome.analysis

\* The for loop goes on to the next level whatever the entry is.
NextLevelStopOnError(idx, entry, levels) ==
    IF entry.error # None THEN Len(levels) ELSE idx + 1
NextLevel(idx, entry, levels) == idx + 1

\* The order self.test_configs lists the levels in (it is a plain dict), and
\* one other order.
LevelOrders ==
    {<<"light_load", "moderate_load", "heavy_load", "stress_test">>,
     <<"stress_test", "light_load", "heavy_load", "moderate_load">>}

InitSuite ==
    /\ s_pc = "levels"
    /\ level_order \in LevelOrders
    /\ level_idx = 0
    /\ suite_results = <<>>
    /\ suite_report = NoAnalysis

\* One iteration of "for test_name, config in self.test_configs.items()".
RunLevel ==
    /\ s_pc = "levels"
    /\ level_idx < Len(level_order)
    /\ \E run \in LevelRuns :
           LET test_name == level_order[level_idx + 1]
               outcome == RunLoadTest(run, TestConfigs[test_name])
               entry == SuiteEntry(outcome)
           IN  /\ suite_results' = Append(suite_results, <<test_name, entry>>)
               /\ level_idx' = NextLevel(level_idx, entry, level_order)
               /\ report_files' =
                      SaveReport(report_files, test_name, TestConfigs[test_name],
                                 run, outcome)
    /\ UNCHANGED <<s_pc, level_order, suite_report>>
    /\ UNCHANGED <<load_vars, runner_vars, analysis_vars, test_report_vars,
                   score_vars, hybrid_vars, cycle_vars>>

\* comprehensive_report = self.generate_comprehensive_load_report(suite_results)
SuiteReport ==
    /\ s_pc = "levels"
    /\ level_idx = Len(level_order)
    /\ suite_report' = GenerateComprehensiveLoadReport(suite_results)
    /\ s_pc' = "done"
    /\ UNCHANGED <<level_order, level_idx, suite_results>>
    /\ UNCHANGED <<load_vars, runner_vars, analysis_vars, test_report_vars, extra_vars>>

\* --------------------------------------------- generate_comprehensive_report
\* run_single_test results: error None when the dict has no "error" key.
TestOutcomes ==
    {[error |-> None], [error |-> "AI analysis failed"],
     [error |-> "Failed to encode image"]}

SuccessfulResults(results) == SelectSeq(results, LAMBDA r : r.error = None)

\* overall_stats of the report; success_rate in thousandths.
GenerateComprehensiveReport(results) ==
    LET successful_results == SuccessfulResults(results)
    IN  IF successful_results = <<>>
        THEN [error |-> "No successful tests to analyze"]
        ELSE [error |-> None,
              overall_stats |->
                  [total_tests |-> Len(results),
                   successful_tests |-> Len(successful_results),
                   success_rate |->
                       RoundDiv(Len(successful_results), Len(results), 3)]]

InitTestReport ==
    /\ g_pc = "ready"
    /\ \E n \in 0..MaxTests : test_results \in [1..n -> TestOutcomes]
    /\ test_report = NoAnalysis

\* report = self.generate_comprehensive_report(all_results, scenario_results)
CallGenerateComprehensiveReport ==
    /\ g_pc = "ready"
    /\ test_report' = GenerateComprehensiveReport(test_results)
    /\ g_pc' = "returned"
    /\ UNCHANGED test_results
    /\ UNCHANGED <<load_vars, runner_vars, analysis_vars, suite_vars, extra_vars>>

\* ---------------------------------------------------------------- ReportSpec
\* One of the three report paths is taken on drawn inputs.
InitReport ==
    /\ IdleLoad
    /\ IdleRunner
    /\ IdleExtra
    /\ \/ InitAnalysis /\ IdleSuite /\ IdleTestReport
       \/ IdleAnalysis /\ InitSuite /\ IdleTestReport
       \/ IdleAnalysis /\ IdleSuite /\ InitTestReport

NextReport ==
    \/ CallAnalyzeLoadTestResults
    \/ RunLevel
    \/ SuiteReport
    \/ CallGenerateComprehensiveReport

ReportSpec == InitReport /\ [][NextReport]_vars

\* ------------------------------------------------------------------------
\* Properties of ReportSpec.
Abs(x) == IF x < 0 THEN -x ELSE x

\* analyze_load_test_results returned the report of a non-empty batch.
AnalysisReturned == a_pc = "returned" /\ batch # <<>>

\* The response times of the successful results of the batch, and how many
\* of them are below / not above a value.
BatchTimes == ResponseTimes(batch)
Below(v) == Cardinality({i \in DOMAIN BatchTimes : BatchTimes[i] < v})
NotAbove(v) == Cardinality({i \in DOMAIN BatchTimes : BatchTimes[i] <= v})

\* ---------------------------------------------------------------------
\* C13  For every non-empty batch the report has successful_requests +
\*      failed_requests = total_requests (the size of the batch), and its
\*      success_rate lies in [0, 1] and is successful_requests /
\*      total_requests, rounded to three decimals.
C13_CountsAndRate ==
    AnalysisReturned =>
        LET ps == load_report.performance_summary
        IN  /\ ps.total_requests = Len(batch)
            /\ ps.successful_requests + ps.failed_requests = ps.total_requests
            /\ ps.success_rate \in 0..1000
            /\ 2 * Abs(1000 * ps.successful_requests
                           - ps.success_rate * ps.total_requests)
                   <= ps.total_requests

C13_Witness ==
    /\ AnalysisReturned
    /\ load_report.performance_summary.successful_requests >= 2
    /\ load_report.performance_summary.failed_requests >= 3
    /\ \E i \in DOMAIN batch : ~batch[i].success /\ batch[i].error = None
    /\ load_report.performance_summary.success_rate \notin {0, 500, 1000}

\* ---------------------------------------------------------------------
\* C14  For every batch with a successful result, min <= median <= p95 <=
\*      p99 <= max over the response times of the successful results; p95
\*      and p99 are the elements of rank floor(0.95 n) and floor(0.99 n)
\*      (counted from 0) of the ascending sample, and all five are the single
\*      value when n = 1.
C14_OrderStatistics ==
    (AnalysisReturned /\ BatchTimes # <<>>) =>
        LET m == load_report.response_time_metrics
            n == Len(BatchTimes)
        IN  /\ m.min <= m.median /\ m.median <= m.p95
            /\ m.p95 <= m.p99 /\ m.p99 <= m.max
            /\ \A i \in DOMAIN BatchTimes :
                   m.min <= BatchTimes[i] /\ BatchTimes[i] <= m.max
            /\ n > 1 =>
                   /\ Below(m.p95) <= (95 * n) \div 100
                   /\ (95 * n) \div 100 < NotAbove(m.p95)
                   /\ Below(m.p99) <= (99 * n) \div 100
                   /\ (99 * n) \div 100 < NotAbove(m.p99)
            /\ n = 1 =>
                   {m.min, m.median, m.p95, m.p99, m.max} = {BatchTimes[1]}

C14_Witness ==
    /\ AnalysisReturned
    /\ Len(BatchTimes) > 100
    /\ load_report.response_time_metrics.p95 < load_report.response_time_metrics.p99
    /\ load_report.response_time_metrics.p99 < load_report.response_time_metrics.max

\* ---------------------------------------------------------------------
\* C15  When every request of the batch failed, the report has success_rate
\*      0.0, the performance grade F and a CRITICAL recommendation.
C15_AllFailedGradeF ==
    (AnalysisReturned /\ \A i \in DOMAIN batch : ~batch[i].success) =>
        /\ load_report.performance_summary.success_rate = 0
        /\ \E i \in DOMAIN load_report.recommendations :
               load_report.recommendations[i]
                   \in {SuccessRateCritical, ResponseTimeCritical}
        /\ load_report.performance_summary.performance_grade = "F (Failing)"

\* ---------------------------------------------------------------------
\* C16  The performance grade is the band of the sum of the success-rate
\*      points (>= 0.95: 50, >= 0.90: 40, >= 0.80: 30, >= 0.70: 20, else 10)
\*      and the response-time points (mean <= 0.5 target: 50, <= 0.75
\*      target: 40, <= target: 30, <= 1.5 target: 20, else 10); bands
\*      >= 90 A+, >= 80 A, >= 70 B, >= 60 C, >= 50 D, else F; a value on a
\*      boundary earns the points of the better tier.
C16_GradeTable ==
    AnalysisReturned =>
        LET ok == load_report.performance_summary.successful_requests
            all == load_report.performance_summary.total_requests
            n == Len(BatchTimes)
            total == Sum(BatchTimes)
            target == batch_config.target_response_time
            rate_points ==
                CASE 100 * ok >= 95 * all -> 50
                  [] 100 * ok < 95 * all /\ 100 * ok >= 90 * all -> 40
                  [] 100 * ok < 90 * all /\ 100 * ok >= 80 * all -> 30
                  [] 100 * ok < 80 * all /\ 100 * ok >= 70 * all -> 20
                  [] OTHER -> 10
            time_points ==
                CASE n = 0 \/ 2 * total <= target * n -> 50
                  [] n > 0 /\ 2 * total > target * n
                         /\ 4 * total <= 3 * target * n -> 40
                  [] n > 0 /\ 4 * total > 3 * target * n
                         /\ total <= target * n -> 30
                  [] n > 0 /\ total > target * n
                         /\ 2 * total <= 3 * target * n -> 20
                  [] OTHER -> 10
            points == rate_points + time_points
        IN  load_report.performance_summary.performance_grade =
                CASE points >= 90 -> "A+ (Excellent)"
                  [] points < 90 /\ points >= 80 -> "A (Very Good)"
                  [] points < 80 /\ points >= 70 -> "B (Good)"
                  [] points < 70 /\ points >= 60 -> "C (Acceptable)"
                  [] points < 60 /\ points >= 50 -> "D (Poor)"
                  [] OTHER -> "F (Failing)"

\* A success rate of exactly 0.95 with a mean between the target and 1.5
\* times the target: 50 + 20 points.
C16_Witness ==
    /\ AnalysisReturned
    /\ 100 * load_report.performance_summary.successful_requests
           = 95 * load_report.performance_summary.total_requests
    /\ load_report.performance_summary.performance_grade = "B (Good)"

\* The suite has returned; its successful entries; the position of a level in
\* suite_results.
SuiteDone == s_pc = "done"
SuiteOk == SuccessfulTests(suite_results)
HasEntry(level) ==
    \E i \in DOMAIN suite_results :
        suite_results[i][1] = level /\ suite_results[i][2].error = None

\* ---------------------------------------------------------------------
\* C17  Empty inputs give a report with an error field, no exception:
\*      analyze_load_test_results on an empty list, generate_comprehensive_
\*      load_report without a successful level, generate_comprehensive_report
\*      without a successful test.
C17_EmptyInputErrorReport ==
    /\ (a_pc \in {"returned", "raised"} /\ batch = <<>>) =>
           a_pc = "returned" /\ load_report = [error |-> "No results to analyze"]
    /\ (SuiteDone /\ SuiteOk = <<>>) =>
           suite_report = [error |-> "No successful load tests to analyze"]
    /\ (g_pc = "returned" /\ SuccessfulResults(test_results) = <<>>) =>
           test_report = [error |-> "No successful tests to analyze"]

\* No level succeeded, one of them because its run collected nothing.
C17_Witness ==
    /\ SuiteDone
    /\ SuiteOk = <<>>
    /\ \E i \in DOMAIN suite_results :
           suite_results[i][2] = [error |-> "'performance_summary'"]
    /\ suite_report.error # None

\* ---------------------------------------------------------------------
\* C18  The suite runs the levels one after another; a level whose run
\*      raises or yields no results leaves a {"error": ...} entry, every
\*      later level is still run, and the suite returns a report.
C18_FailedLevelDoesNotStopSuite ==
    /\ s_pc = "levels" => level_idx = Len(suite_results)
    /\ \A i \in DOMAIN suite_results :
           /\ suite_results[i][1] = level_order[i]
           /\ suite_results[i][2].error # None =>
                  DOMAIN suite_results[i][2] = {"error"}
    /\ SuiteDone =>
           /\ Len(suite_results) = Len(level_order)
           /\ suite_report # NoAnalysis
           /\ suite_report.error = None <=> SuiteOk # <<>>

C18_Witness ==
    /\ SuiteDone
    /\ suite_results[1][2] = [error |-> "'performance_summary'"]
    /\ suite_results[2][2].error = None
    /\ suite_results[3][2] =
           [error |-> "'NoneType' object has no attribute 'lower'"]
    /\ suite_results[4][2].error = None
    /\ suite_report.error = None

\* ---------------------------------------------------------------------
\* The successful levels of the fewest and of the most concurrent users, and
\* the quotient latest / earliest of two report values given in 1/unit, as
\* round(latest / earliest, 2) of the doubles, in hundredths.
LevelUsers(i) == TestConfigs[SuiteOk[i][1]].concurrent_users
Earliest ==
    SuiteOk[CHOOSE i \in DOMAIN SuiteOk :
                \A j \in DOMAIN SuiteOk : LevelUsers(i) <= LevelUsers(j)][2]
Latest ==
    SuiteOk[CHOOSE i \in DOMAIN SuiteOk :
                \A j \in DOMAIN SuiteOk : LevelUsers(j) <= LevelUsers(i)][2]
Quotient(latest, earliest, unit) ==
    Round(FloatDiv(TrueDiv(latest, unit), TrueDiv(earliest, unit)), 2)

\* C19 as stated: analyze_scalability compares the successful level of the
\*      fewest concurrent users with the one of the most, whatever order the
\*      levels ran in: response-time factor latest / earliest (1.0 when the
\*      earliest mean is 0), success-rate decrease earliest - latest,
\*      throughput factor latest / earliest, a quotient that exists only for
\*      an earliest throughput other than 0; with fewer than two successful
\*      levels the factors are 1.0, 0.0, 1.0 and the grade is "insufficient
\*      data".
C19_FactorsAsStated ==
    (SuiteDone /\ suite_report.error = None) =>
        LET sc == suite_report.scalability_analysis
        IN  IF Len(SuiteOk) < 2
            THEN /\ sc.response_time_increase_factor = 100
                 /\ sc.success_rate_decrease = 0
                 /\ sc.throughput_scaling_factor = 100
                 /\ sc.scalability_grade = "insufficient data"
            ELSE /\ sc.response_time_increase_factor =
                        IF Earliest.response_time_metrics.average = 0 THEN 100
                        ELSE Quotient(Latest.response_time_metrics.average,
                                      Earliest.response_time_metrics.average, 1000)
                 /\ sc.success_rate_decrease =
                        Earliest.performance_summary.success_rate
                            - Latest.performance_summary.success_rate
                 /\ Earliest.throughput_metrics.requests_per_second # 0
                 /\ sc.throughput_scaling_factor =
                        Quotient(Latest.throughput_metrics.requests_per_second,
                                 Earliest.throughput_metrics.requests_per_second, 100)

\* C19 amended: as stated, but the throughput factor is 1.0 when the
\*      throughput of the earliest level is 0, as the response-time factor is
\*      when its mean is 0, and with fewer than two successful levels the
\*      grade is spelled "Insufficient data".
C19_ScalabilityLowestVsHighest ==
    (SuiteDone /\ suite_report.error = None) =>
        LET sc == suite_report.scalability_analysis
        IN  IF Len(SuiteOk) < 2
            THEN /\ sc.response_time_increase_factor = 100
                 /\ sc.success_rate_decrease = 0
                 /\ sc.throughput_scaling_factor = 100
                 /\ sc.scalability_grade = "Insufficient data"
            ELSE /\ sc.response_time_increase_factor =
                        IF Earliest.response_time_metrics.average = 0 THEN 100
                        ELSE Quotient(Latest.response_time_metrics.average,
                                      Earliest.response_time_metrics.average, 1000)
                 /\ sc.success_rate_decrease =
                        Earliest.performance_summary.success_rate
                            - Latest.performance_summary.success_rate
                 /\ sc.throughput_scaling_factor =
                        IF Earliest.throughput_metrics.requests_per_second = 0
                        THEN 100
                        ELSE Quotient(Latest.throughput_metrics.requests_per_second,
                                      Earliest.throughput_metrics.requests_per_second, 100)

\* The levels ran in another order than that of their users, all four were
\* successful, the level of the fewest users has a throughput that rounds to
\* 0 and the one of the most users has not: the throughput factor is 1.0
\* while the other two factors are not the neutral ones.
C19_Witness ==
    /\ SuiteDone
    /\ suite_report.error = None
    /\ level_order[1] = "stress_test"
    /\ Len(SuiteOk) = 4
    /\ Earliest.throughput_metrics.requests_per_second = 0
    /\ Latest.throughput_metrics.requests_per_second > 0
    /\ suite_report.scalability_analysis.throughput_scaling_factor = 100
    /\ suite_report.scalability_analysis.response_time_increase_factor # 100
    /\ suite_report.scalability_analysis.success_rate_decrease # 0

\* ---------------------------------------------------------------------
\* C20  readiness_score = (criteria met) / 5; the criterion of a named level
\*      is met only if that level has a non-error analysis; PRODUCTION READY
\*      iff at least 4 criteria are met, NEARLY READY iff exactly 3, NEEDS
\*      OPTIMIZATION iff exactly 2, NOT READY otherwise.
C20_ReadinessScore ==
    (SuiteDone /\ suite_report.error = None) =>
        LET pr == suite_report.production_readiness
            c == pr.readiness_criteria
            one(b) == IF b THEN 1 ELSE 0
            met == one(c.light_load_success) + one(c.moderate_load_success)
                       + one(c.heavy_load_acceptable)
                       + one(c.stress_test_survival)
                       + one(c.overall_reliability)
        IN  /\ 5 * pr.readiness_score = 100 * met
            /\ c.light_load_success => HasEntry("light_load")
            /\ c.moderate_load_success => HasEntry("moderate_load")
            /\ c.heavy_load_acceptable => HasEntry("heavy_load")
            /\ c.stress_test_survival => HasEntry("stress_test")
            /\ pr.readiness_level =
                   CASE met >= 4 -> "PRODUCTION READY"
                     [] met = 3 -> "NEARLY READY"
                     [] met = 2 -> "NEEDS OPTIMIZATION"
                     [] OTHER -> "NOT READY"

\* The light level failed, the three other level criteria and the overall
\* reliability are met.
C20_Witness ==
    /\ SuiteDone
    /\ suite_report.error = None
    /\ ~HasEntry("light_load")
    /\ suite_report.production_readiness.readiness_score = 80
    /\ suite_report.production_readiness.readiness_level = "PRODUCTION READY"

\* ------------------------------------------------------------------------
\* Suggestion scoring: FlirrtDatasetBuilder.quality_score_suggestion and the
\* per-suggestion part of IterativeTestingSystem.enhanced_quality_scoring.
\* A text (a str) is the sequence of its code points.  Scores are in sixtieths
\* (ScoreUnit stands for 1.0), so that thirds, tenths and twentieths are
\* exact; weights are in hundredths.
ScoreUnit == 60
WeightUnit == 100

\* The constants are written character by character: ord(c) of the tab, the
\* line feed and the ASCII characters from " " (32) to "_" (95) and from "a"
\* (97) to "~" (126).
AsciiFromBlank ==
    <<" ", "!", "\"", "#", "$", "%", "&", "'", "(", ")", "*", "+", ",", "-",
      ".", "/", "0", "1", "2", "3", "4", "5", "6", "7", "8", "9", ":", ";",
      "<", "=", ">", "?", "@", "A", "B", "C", "D", "E", "F", "G", "H", "I",
      "J", "K", "L", "M", "N", "O", "P", "Q", "R", "S", "T", "U", "V", "W",
      "X", "Y", "Z", "[", "\\", "]", "^", "_">>
AsciiFromA ==
    <<"a", "b", "c", "d", "e", "f", "g", "h", "i", "j", "k", "l", "m", "n",
      "o", "p", "q", "r", "s", "t", "u", "v", "w", "x", "y", "z", "{", "|",
      "}", "~">>
Ord(c) ==
    IF c = "\t" THEN 9
    ELSE IF c = "\n" THEN 10
    ELSE IF \E i \in DOMAIN AsciiFromBlank : AsciiFromBlank[i] = c
    THEN 31 + (CHOOSE i \in DOMAIN AsciiFromBlank : AsciiFromBlank[i] = c)
    ELSE 96 + (CHOOSE i \in DOMAIN AsciiFromA : AsciiFromA[i] = c)
Str(chars) == [i \in DOMAIN chars |-> Ord(chars[i])]
Strs(list) == [i \in DOMAIN list |-> Str(list[i])]

\* ---- str.lower()
\* The simple lowercase mappings of the Unicode data of the interpreter
\* (Unicode 14.0): <<first, last, step, delta>> says that the code points
\* first, first + step, ..., last lower to themselves plus delta.
LowerRuns ==
    <<<<65, 90, 1, 32>>, <<192, 214, 1, 32>>, <<216, 222, 1, 32>>,
      <<256, 302, 2, 1>>, <<306, 310, 2, 1>>, <<313, 327, 2, 1>>,
      <<330, 374, 2, 1>>, <<376, 376, 1, -121>>, <<377, 381, 2, 1>>,
      <<385, 385, 1, 210>>, <<386, 388, 2, 1>>, <<390, 390, 1, 206>>,
      <<391, 391, 1, 1>>, <<393, 394, 1, 205>>, <<395, 395, 1, 1>>,
      <<398, 398, 1, 79>>, <<399, 399, 1, 202>>, <<400, 400, 1, 203>>,
      <<401, 401, 1, 1>>, <<403, 403, 1, 205>>, <<404, 404, 1, 207>>,
      <<406, 406, 1, 211>>, <<407, 407, 1, 209>>, <<408, 408, 1, 1>>,
      <<412, 412, 1, 211>>, <<413, 413, 1, 213>>, <<415, 415, 1, 214>>,
      <<416, 420, 2, 1>>, <<422, 422, 1, 218>>, <<423, 423, 1, 1>>,
      <<425, 425, 1, 218>>, <<428, 428, 1, 1>>, <<430, 430, 1, 218>>,
      <<431, 431, 1, 1>>, <<433, 434, 1, 217>>, <<435, 437, 2, 1>>,
      <<439, 439, 1, 219>>, <<440, 440, 1, 1>>, <<444, 444, 1, 1>>,
      <<452, 452, 1, 2>>, <<453, 453, 1, 1>>, <<455, 455, 1, 2>>,
      <<456, 456, 1, 1>>, <<458, 458, 1, 2>>, <<459, 475, 2, 1>>,
      <<478, 494, 2, 1>>, <<497, 497, 1, 2>>, <<498, 500, 2, 1>>,
      <<502, 502, 1, -97>>, <<503, 503, 1, -56>>, <<504, 542, 2, 1>>,
      <<544, 544, 1, -130>>, <<546, 562, 2, 1>>, <<570, 570, 1, 10795>>,
      <<571, 571, 1, 1>>, <<573, 573, 1, -163>>, <<574, 574, 1, 10792>>,
      <<577, 577, 1, 1>>, <<579, 579, 1, -195>>, <<580, 580, 1, 69>>,
      <<581, 581, 1, 71>>, <<582, 590, 2, 1>>, <<880, 882, 2, 1>>,
      <<886, 886, 1, 1>>, <<895, 895, 1, 116>>, <<902, 902, 1, 38>>,
      <<904, 906, 1, 37>>, <<908, 908, 1, 64>>, <<910, 911, 1, 63>>,
      <<913, 929, 1, 32>>, <<932, 939, 1, 32>>, <<975, 975, 1, 8>>,
      <<984, 1006, 2, 1>>, <<1012, 1012, 1, -60>>, <<1015, 1015, 1, 1>>,
      <<1017, 1017, 1, -7>>, <<1018, 1018, 1, 1>>, <<1021, 1023, 1, -130>>,
      <<1024, 1039, 1, 80>>, <<1040, 1071, 1, 32>>, <<1120, 1152, 2, 1>>,
      <<1162, 1214, 2, 1>>, <<1216, 1216, 1, 15>>, <<1217, 1229, 2, 1>>,
      <<1232, 1326, 2, 1>>, <<1329, 1366, 1, 48>>, <<4256, 4293, 1, 7264>>,
      <<4295, 4295, 1, 7264>>, <<4301, 4301, 1, 7264>>,
      <<5024, 5103, 1, 38864>>, <<5104, 5109, 1, 8>>,
      <<7312, 7354, 1, -3008>>, <<7357, 7359, 1, -3008>>,
      <<7680, 7828, 2, 1>>, <<7838, 7838, 1, -7615>>, <<7840, 7934, 2, 1>>,
      <<7944, 7951, 1, -8>>, <<7960, 7965, 1, -8>>, <<7976, 7983, 1, -8>>,
      <<7992, 7999, 1, -8>>, <<8008, 8013, 1, -8>>, <<8025, 8031, 2, -8>>,
      <<8040, 8047, 1, -8>>, <<8072, 8079, 1, -8>>, <<8088, 8095, 1, -8>>,
      <<8104, 8111, 1, -8>>, <<8120, 8121, 1, -8>>, <<8122, 8123, 1, -74>>,
      <<8124, 8124, 1, -9>>, <<8136, 8139, 1, -86>>, <<8140, 8140, 1, -9>>,
      <<8152, 8153, 1, -8>>, <<8154, 8155, 1, -100>>, <<8168, 8169, 1, -8>>,
      <<8170, 8171, 1, -112>>, <<8172, 8172, 1, -7>>, <<8184, 8185, 1, -128>>,
      <<8186, 8187, 1, -126>>, <<8188, 8188, 1, -9>>,
      <<8486, 8486, 1, -7517>>, <<8490, 8490, 1, -8383>>,
      <<8491, 8491, 1, -8262>>, <<8498, 8498, 1, 28>>, <<8544, 8559, 1, 16>>,
      <<8579, 8579, 1, 1>>, <<9398, 9423, 1, 26>>, <<11264, 11311, 1, 48>>,
      <<11360, 11360, 1, 1>>, <<11362, 11362, 1, -10743>>,
      <<11363, 11363, 1, -3814>>, <<11364, 11364, 1, -10727>>,
      <<11367, 11371, 2, 1>>, <<11373, 11373, 1, -10780>>,
      <<11374, 11374, 1, -10749>>, <<11375, 11375, 1, -10783>>,
      <<11376, 11376, 1, -10782>>, <<11378, 11378, 1, 1>>,
      <<11381, 11381, 1, 1>>, <<11390, 11391, 1, -10815>>,
      <<11392, 11490, 2, 1>>, <<11499, 11501, 2, 1>>, <<11506, 11506, 1, 1>>,
      <<42560, 42604, 2, 1>>, <<42624, 42650, 2, 1>>, <<42786, 42798, 2, 1>>,
      <<42802, 42862, 2, 1>>, <<42873, 42875, 2, 1>>,
      <<42877, 42877, 1, -35332>>, <<42878, 42886, 2, 1>>,
      <<42891, 42891, 1, 1>>, <<42893, 42893, 1, -42280>>,
      <<42896, 42898, 2, 1>>, <<42902, 42920, 2, 1>>,
      <<42922, 42922, 1, -42308>>, <<42923, 42923, 1, -42319>>,
      <<42924, 42924, 1, -42315>>, <<42925, 42925, 1, -42305>>,
      <<42926, 42926, 1, -42308>>, <<42928, 42928, 1, -42258>>,
      <<42929, 42929, 1, -42282>>, <<42930, 42930, 1, -42261>>,
      <<42931, 42931, 1, 928>>, <<42932, 42946, 2, 1>>,
      <<42948, 42948, 1, -48>>, <<42949, 42949, 1, -42307>>,
      <<42950, 42950, 1, -35384>>, <<42951, 42953, 2, 1>>,
      <<42960, 42960, 1, 1>>, <<42966, 42968, 2, 1>>, <<42997, 42997, 1, 1>>,
      <<65313, 65338, 1, 32>>, <<66560, 66599, 1, 40>>,
      <<66736, 66771, 1, 40>>, <<66928, 66938, 1, 39>>,
      <<66940, 66954, 1, 39>>, <<66956, 66962, 1, 39>>,
      <<66964, 66965, 1, 39>>, <<68736, 68786, 1, 64>>,
      <<71840, 71871, 1, 32>>, <<93760, 93791, 1, 32>>,
      <<125184, 125217, 1, 34>>>>

\* Ranges <<first, last>> of the case-ignorable code points, and of the cased
\* code points that are not case-ignorable.
CaseIgnorableRanges ==
    <<<<39, 39>>, <<46, 46>>, <<58, 58>>, <<94, 94>>, <<96, 96>>,
      <<168, 168>>, <<173, 173>>, <<175, 175>>, <<180, 180>>, <<183, 184>>,
      <<688, 879>>, <<884, 885>>, <<890, 890>>, <<900, 901>>, <<903, 903>>,
      <<1155, 1161>>, <<1369, 1369>>, <<1375, 1375>>, <<1425, 1469>>,
      <<1471, 1471>>, <<1473, 1474>>, <<1476, 1477>>, <<1479, 1479>>,
      <<1524, 1524>>, <<1536, 1541>>, <<1552, 1562>>, <<1564, 1564>>,
      <<1600, 1600>>, <<1611, 1631>>, <<1648, 1648>>, <<1750, 1757>>,
      <<1759, 1768>>, <<1770, 1773>>, <<1807, 1807>>, <<1809, 1809>>,
      <<1840, 1866>>, <<1958, 1968>>, <<2027, 2037>>, <<2042, 2042>>,
      <<2045, 2045>>, <<2070, 2093>>, <<2137, 2139>>, <<2184, 2184>>,
      <<2192, 2193>>, <<2200, 2207>>, <<2249, 2306>>, <<2362, 2362>>,
      <<2364, 2364>>, <<2369, 2376>>, <<2381, 2381>>, <<2385, 2391>>,
      <<2402, 2403>>, <<2417, 2417>>, <<2433, 2433>>, <<2492, 2492>>,
      <<2497, 2500>>, <<2509, 2509>>, <<2530, 2531>>, <<2558, 2558>>,
      <<2561, 2562>>, <<2620, 2620>>, <<2625, 2626>>, <<2631, 2632>>,
      <<2635, 2637>>, <<2641, 2641>>, <<2672, 2673>>, <<2677, 2677>>,
      <<2689, 2690>>, <<2748, 2748>>, <<2753, 2757>>, <<2759, 2760>>,
      <<2765, 2765>>, <<2786, 2787>>, <<2810, 2815>>, <<2817, 2817>>,
      <<2876, 2876>>, <<2879, 2879>>, <<2881, 2884>>, <<2893, 2893>>,
      <<2901, 2902>>, <<2914, 2915>>, <<2946, 2946>>, <<3008, 3008>>,
      <<3021, 3021>>, <<3072, 3072>>, <<3076, 3076>>, <<3132, 3132>>,
      <<3134, 3136>>, <<3142, 3144>>, <<3146, 3149>>, <<3157, 3158>>,
      <<3170, 3171>>, <<3201, 3201>>, <<3260, 3260>>, <<3263, 3263>>,
      <<3270, 3270>>, <<3276, 3277>>, <<3298, 3299>>, <<3328, 3329>>,
      <<3387, 3388>>, <<3393, 3396>>, <<3405, 3405>>, <<3426, 3427>>,
      <<3457, 3457>>, <<3530, 3530>>, <<3538, 3540>>, <<3542, 3542>>,
      <<3633, 3633>>, <<3636, 3642>>, <<3654, 3662>>, <<3761, 3761>>,
      <<3764, 3772>>, <<3782, 3782>>, <<3784, 3789>>, <<3864, 3865>>,
      <<3893, 3893>>, <<3895, 3895>>, <<3897, 3897>>, <<3953, 3966>>,
      <<3968, 3972>>, <<3974, 3975>>, <<3981, 3991>>, <<3993, 4028>>,
      <<4038, 4038>>, <<4141, 4144>>, <<4146, 4151>>, <<4153, 4154>>,
      <<4157, 4158>>, <<4184, 4185>>, <<4190, 4192>>, <<4209, 4212>>,
      <<4226, 4226>>, <<4229, 4230>>, <<4237, 4237>>, <<4253, 4253>>,
      <<4348, 4348>>, <<4957, 4959>>, <<5906, 5908>>, <<5938, 5939>>,
      <<5970, 5971>>, <<6002, 6003>>, <<6068, 6069>>, <<6071, 6077>>,
      <<6086, 6086>>, <<6089, 6099>>, <<6103, 6103>>, <<6109, 6109>>,
      <<6155, 6159>>, <<6211, 6211>>, <<6277, 6278>>, <<6313, 6313>>,
      <<6432, 6434>>, <<6439, 6440>>, <<6450, 6450>>, <<6457, 6459>>,
      <<6679, 6680>>, <<6683, 6683>>, <<6742, 6742>>, <<6744, 6750>>,
      <<6752, 6752>>, <<6754, 6754>>, <<6757, 6764>>, <<6771, 6780>>,
      <<6783, 6783>>, <<6823, 6823>>, <<6832, 6862>>, <<6912, 6915>>,
      <<6964, 6964>>, <<6966, 6970>>, <<6972, 6972>>, <<6978, 6978>>,
      <<7019, 7027>>, <<7040, 7041>>, <<7074, 7077>>, <<7080, 7081>>,
      <<7083, 7085>>, <<7142, 7142>>, <<7144, 7145>>, <<7149, 7149>>,
      <<7151, 7153>>, <<7212, 7219>>, <<7222, 7223>>, <<7288, 7293>>,
      <<7376, 7378>>, <<7380, 7392>>, <<7394, 7400>>, <<7405, 7405>>,
      <<7412, 7412>>, <<7416, 7417>>, <<7468, 7530>>, <<7544, 7544>>,
      <<7579, 7679>>, <<8125, 8125>>, <<8127, 8129>>, <<8141, 8143>>,
      <<8157, 8159>>, <<8173, 8175>>, <<8189, 8190>>, <<8203, 8207>>,
      <<8216, 8217>>, <<8228, 8228>>, <<8231, 8231>>, <<8234, 8238>>,
      <<8288, 8292>>, <<8294, 8303>>, <<8305, 8305>>, <<8319, 8319>>,
      <<8336, 8348>>, <<8400, 8432>>, <<11388, 11389>>, <<11503, 11505>>,
      <<11631, 11631>>, <<11647, 11647>>, <<11744, 11775>>, <<11823, 11823>>,
      <<12293, 12293>>, <<12330, 12333>>, <<12337, 12341>>, <<12347, 12347>>,
      <<12441, 12446>>, <<12540, 12542>>, <<40981, 40981>>, <<42232, 42237>>,
      <<42508, 42508>>, <<42607, 42610>>, <<42612, 42621>>, <<42623, 42623>>,
      <<42652, 42655>>, <<42736, 42737>>, <<42752, 42785>>, <<42864, 42864>>,
      <<42888, 42890>>, <<42994, 42996>>, <<43000, 43001>>, <<43010, 43010>>,
      <<43014, 43014>>, <<43019, 43019>>, <<43045, 43046>>, <<43052, 43052>>,
      <<43204, 43205>>, <<43232, 43249>>, <<43263, 43263>>, <<43302, 43309>>,
      <<43335, 43345>>, <<43392, 43394>>, <<43443, 43443>>, <<43446, 43449>>,
      <<43452, 43453>>, <<43471, 43471>>, <<43493, 43494>>, <<43561, 43566>>,
      <<43569, 43570>>, <<43573, 43574>>, <<43587, 43587>>, <<43596, 43596>>,
      <<43632, 43632>>, <<43644, 43644>>, <<43696, 43696>>, <<43698, 43700>>,
      <<43703, 43704>>, <<43710, 43711>>, <<43713, 43713>>, <<43741, 43741>>,
      <<43756, 43757>>, <<43763, 43764>>, <<43766, 43766>>, <<43867, 43871>>,
      <<43881, 43883>>, <<44005, 44005>>, <<44008, 44008>>, <<44013, 44013>>,
      <<64286, 64286>>, <<64434, 64450>>, <<65024, 65039>>, <<65043, 65043>>,
      <<65056, 65071>>, <<65106, 65106>>, <<65109, 65109>>, <<65279, 65279>>,
      <<65287, 65287>>, <<65294, 65294>>, <<65306, 65306>>, <<65342, 65342>>,
      <<65344, 65344>>, <<65392, 65392>>, <<65438, 65439>>, <<65507, 65507>>,
      <<65529, 65531>>, <<66045, 66045>>, <<66272, 66272>>, <<66422, 66426>>,
      <<67456, 67461>>, <<67463, 67504>>, <<67506, 67514>>, <<68097, 68099>>,
      <<68101, 68102>>, <<68108, 68111>>, <<68152, 68154>>, <<68159, 68159>>,
      <<68325, 68326>>, <<68900, 68903>>, <<69291, 69292>>, <<69446, 69456>>,
      <<69506, 69509>>, <<69633, 69633>>, <<69688, 69702>>, <<69744, 69744>>,
      <<69747, 69748>>, <<69759, 69761>>, <<69811, 69814>>, <<69817, 69818>>,
      <<69821, 69821>>, <<69826, 69826>>, <<69837, 69837>>, <<69888, 69890>>,
      <<69927, 69931>>, <<69933, 69940>>, <<70003, 70003>>, <<70016, 70017>>,
      <<70070, 70078>>, <<70089, 70092>>, <<70095, 70095>>, <<70191, 70193>>,
      <<70196, 70196>>, <<70198, 70199>>, <<70206, 70206>>, <<70367, 70367>>,
      <<70371, 70378>>, <<70400, 70401>>, <<70459, 70460>>, <<70464, 70464>>,
      <<70502, 70508>>, <<70512, 70516>>, <<70712, 70719>>, <<70722, 70724>>,
      <<70726, 70726>>, <<70750, 70750>>, <<70835, 70840>>, <<70842, 70842>>,
      <<70847, 70848>>, <<70850, 70851>>, <<71090, 71093>>, <<71100, 71101>>,
      <<71103, 71104>>, <<71132, 71133>>, <<71219, 71226>>, <<71229, 71229>>,
      <<71231, 71232>>, <<71339, 71339>>, <<71341, 71341>>, <<71344, 71349>>,
      <<71351, 71351>>, <<71453, 71455>>, <<71458, 71461>>, <<71463, 71467>>,
      <<71727, 71735>>, <<71737, 71738>>, <<71995, 71996>>, <<71998, 71998>>,
      <<72003, 72003>>, <<72148, 72151>>, <<72154, 72155>>, <<72160, 72160>>,
      <<72193, 72202>>, <<72243, 72248>>, <<72251, 72254>>, <<72263, 72263>>,
      <<72273, 72278>>, <<72281, 72283>>, <<72330, 72342>>, <<72344, 72345>>,
      <<72752, 72758>>, <<72760, 72765>>, <<72767, 72767>>, <<72850, 72871>>,
      <<72874, 72880>>, <<72882, 72883>>, <<72885, 72886>>, <<73009, 73014>>,
      <<73018, 73018>>, <<73020, 73021>>, <<73023, 73029>>, <<73031, 73031>>,
      <<73104, 73105>>, <<73109, 73109>>, <<73111, 73111>>, <<73459, 73460>>,
      <<78896, 78904>>, <<92912, 92916>>, <<92976, 92982>>, <<92992, 92995>>,
      <<94031, 94031>>, <<94095, 94111>>, <<94176, 94177>>, <<94179, 94180>>,
      <<110576, 110579>>, <<110581, 110587>>, <<110589, 110590>>,
      <<113821, 113822>>, <<113824, 113827>>, <<118528, 118573>>,
      <<118576, 118598>>, <<119143, 119145>>, <<119155, 119170>>,
      <<119173, 119179>>, <<119210, 119213>>, <<119362, 119364>>,
      <<121344, 121398>>, <<121403, 121452>>, <<121461, 121461>>,
      <<121476, 121476>>, <<121499, 121503>>, <<121505, 121519>>,
      <<122880, 122886>>, <<122888, 122904>>, <<122907, 122913>>,
      <<122915, 122916>>, <<122918, 122922>>, <<123184, 123197>>,
      <<123566, 123566>>, <<123628, 123631>>, <<125136, 125142>>,
      <<125252, 125259>>, <<127995, 127999>>, <<917505, 917505>>,
      <<917536, 917631>>, <<917760, 917999>>>>
CasedRanges ==
    <<<<65, 90>>, <<97, 122>>, <<170, 170>>, <<181, 181>>, <<186, 186>>,
      <<192, 214>>, <<216, 246>>, <<248, 442>>, <<444, 447>>, <<452, 659>>,
      <<661, 687>>, <<880, 883>>, <<886, 887>>, <<891, 893>>, <<895, 895>>,
      <<902, 902>>, <<904, 906>>, <<908, 908>>, <<910, 929>>, <<931, 1013>>,
      <<1015, 1153>>, <<1162, 1327>>, <<1329, 1366>>, <<1376, 1416>>,
      <<4256, 4293>>, <<4295, 4295>>, <<4301, 4301>>, <<4304, 4346>>,
      <<4349, 4351>>, <<5024, 5109>>, <<5112, 5117>>, <<7296, 7304>>,
      <<7312, 7354>>, <<7357, 7359>>, <<7424, 7467>>, <<7531, 7543>>,
      <<7545, 7578>>, <<7680, 7957>>, <<7960, 7965>>, <<7968, 8005>>,
      <<8008, 8013>>, <<8016, 8023>>, <<8025, 8025>>, <<8027, 8027>>,
      <<8029, 8029>>, <<8031, 8061>>, <<8064, 8116>>, <<8118, 8124>>,
      <<8126, 8126>>, <<8130, 8132>>, <<8134, 8140>>, <<8144, 8147>>,
      <<8150, 8155>>, <<8160, 8172>>, <<8178, 8180>>, <<8182, 8188>>,
      <<8450, 8450>>, <<8455, 8455>>, <<8458, 8467>>, <<8469, 8469>>,
      <<8473, 8477>>, <<8484, 8484>>, <<8486, 8486>>, <<8488, 8488>>,
      <<8490, 8493>>, <<8495, 8500>>, <<8505, 8505>>, <<8508, 8511>>,
      <<8517, 8521>>, <<8526, 8526>>, <<8544, 8575>>, <<8579, 8580>>,
      <<9398, 9449>>, <<11264, 11387>>, <<11390, 11492>>, <<11499, 11502>>,
      <<11506, 11507>>, <<11520, 11557>>, <<11559, 11559>>, <<11565, 11565>>,
      <<42560, 42605>>, <<42624, 42651>>, <<42786, 42863>>, <<42865, 42887>>,
      <<42891, 42894>>, <<42896, 42954>>, <<42960, 42961>>, <<42963, 42963>>,
      <<42965, 42969>>, <<42997, 42998>>, <<43002, 43002>>, <<43824, 43866>>,
      <<43872, 43880>>, <<43888, 43967>>, <<64256, 64262>>, <<64275, 64279>>,
      <<65313, 65338>>, <<65345, 65370>>, <<66560, 66639>>, <<66736, 66771>>,
      <<66776, 66811>>, <<66928, 66938>>, <<66940, 66954>>, <<66956, 66962>>,
      <<66964, 66965>>, <<66967, 66977>>, <<66979, 66993>>, <<66995, 67001>>,
      <<67003, 67004>>, <<68736, 68786>>, <<68800, 68850>>, <<71840, 71903>>,
      <<93760, 93823>>, <<119808, 119892>>, <<119894, 119964>>,
      <<119966, 119967>>, <<119970, 119970>>, <<119973, 119974>>,
      <<119977, 119980>>, <<119982, 119993>>, <<119995, 119995>>,
      <<119997, 120003>>, <<120005, 120069>>, <<120071, 120074>>,
      <<120077, 120084>>, <<120086, 120092>>, <<120094, 120121>>,
      <<120123, 120126>>, <<120128, 120132>>, <<120134, 120134>>,
      <<120138, 120144>>, <<120146, 120485>>, <<120488, 120512>>,
      <<120514, 120538>>, <<120540, 120570>>, <<120572, 120596>>,
      <<120598, 120628>>, <<120630, 120654>>, <<120656, 120686>>,
      <<120688, 120712>>, <<120714, 120744>>, <<120746, 120770>>,
      <<120772, 120779>>, <<122624, 122633>>, <<122635, 122654>>,
      <<125184, 125251>>, <<127280, 127305>>, <<127312, 127337>>,
      <<127344, 127369>>>>

InRun(c, run) == run[1] <= c /\ c <= run[2] /\ (c - run[1]) % run[3] = 0
InRanges(c, ranges) ==
    \E k \in DOMAIN ranges : ranges[k][1] <= c /\ c <= ranges[k][2]
CaseIgnorable(c) == InRanges(c, CaseIgnorableRanges)
Cased(c) == InRanges(c, CasedRanges)

\* The capital sigma text[i] is in final position: the nearest character
\* before it that is not case-ignorable is cased, and the nearest one after
\* it, if any, is not.
FinalSigma(text, i) ==
    /\ \E j \in 1..(i - 1) :
           /\ ~CaseIgnorable(text[j]) /\ Cased(text[j])
           /\ \A k \in (j + 1)..(i - 1) : CaseIgnorable(text[k])
    /\ ~\E j \in (i + 1)..Len(text) :
           /\ ~CaseIgnorable(text[j]) /\ Cased(text[j])
           /\ \A k \in (i + 1)..(j - 1) : CaseIgnorable(text[k])

LowerChar(c) ==
    IF \E k \in DOMAIN LowerRuns : InRun(c, LowerRuns[k])
    THEN c + LowerRuns[CHOOSE k \in DOMAIN LowerRuns : InRun(c, LowerRuns[k])][4]
    ELSE c

\* What text[i] lowers to: the capital sigma (931) to the final small sigma
\* (962) or the small sigma (963), the capital I with a dot above (304) to
\* "i" and a combining dot above, every other code point to one code point.
LowerAt(text, i) ==
    IF text[i] = 931
    THEN (IF FinalSigma(text, i) THEN <<962>> ELSE <<963>>)
    ELSE IF text[i] = 304 THEN <<105, 775>>
    ELSE <<LowerChar(text[i])>>

RECURSIVE LowerFrom(_, _)
LowerFrom(text, i) ==
    IF i > Len(text) THEN <<>> ELSE LowerAt(text, i) \o LowerFrom(text, i + 1)
LowerText(text) == LowerFrom(text, 1)

\* "word in text" on two str objects: word occurs as a substring.
InText(word, text) ==
    \E i \in 0..(Len(text) - Len(word)) :
        \A j \in 1..Len(word) : text[i + j] = word[j]

\* sum(1 for indicator in indicators if indicator in text)
CountIn(indicators, text) ==
    Cardinality({i \in DOMAIN indicators : InText(indicators[i], text)})

\* any(word in text for word in words)
AnyIn(words, text) == \E i \in DOMAIN words : InText(words[i], text)

\* The code points str.split() with no argument separates on, those
\* str.isspace() holds of: the ASCII controls 9 to 13 and 28 to 31, the
\* blank, U+0085, U+00A0, U+1680, U+2000 to U+200A, U+2028, U+2029, U+202F,
\* U+205F and U+3000.
Whitespace ==
    (9..13) \cup (28..32) \cup {133, 160, 5760} \cup (8192..8202)
        \cup {8232, 8233, 8239, 8287, 12288}

\* len(text.split()): the maximal runs of non-whitespace characters.
WordCount(text) ==
    Cardinality({i \in DOMAIN text :
        text[i] \notin Whitespace /\ (i = 1 \/ text[i - 1] \in Whitespace)})

GenericPhrases ==
    Strs(<<<<"h", "e", "y">>,
           <<"h", "i">>,
           <<"h", "o", "w", " ", "a", "r", "e", " ", "y", "o", "u">>,
           <<"w", "h", "a", "t", "'", "s", " ", "u", "p">>,
           <<"n", "i", "c", "e", " ", "p", "i", "c", "s">>>>)
InappropriateWords ==
    Strs(<<<<"s", "e", "x", "y">>,
           <<"h", "o", "t">>,
           <<"b", "o", "d", "y">>,
           <<"b", "e", "d">>,
           <<"n", "i", "g", "h", "t">>>>)
EngagementIndicators ==
    Strs(<<<<"?">>,
           <<"w", "h", "a", "t">>,
           <<"h", "o", "w">>,
           <<"w", "h", "e", "r", "e">>,
           <<"w", "h", "e", "n">>,
           <<"t", "e", "l", "l", " ", "m", "e">>>>)
MalePositiveIndicators ==
    Strs(<<<<"q", "u", "e", "s", "t", "i", "o", "n">>,
           <<"?">>,
           <<"w", "h", "a", "t">>,
           <<"h", "o", "w">>,
           <<"t", "e", "l", "l", " ", "m", "e">>,
           <<"l", "o", "v", "e">>,
           <<"a", "m", "a", "z", "i", "n", "g">>,
           <<"i", "n", "t", "e", "r", "e", "s", "t", "i", "n", "g">>>>)
MaleNegativeIndicators ==
    Strs(<<<<"h", "e", "y">>,
           <<"h", "i">>,
           <<"s", "u", "p">>,
           <<"s", "e", "x", "y">>,
           <<"h", "o", "t">>>>)
FemalePositiveIndicators ==
    Strs(<<<<"f", "u", "n", "n", "y">>,
           <<"l", "a", "u", "g", "h">>,
           <<"h", "a", "h", "a">>,
           <<"l", "o", "v", "e">>,
           <<"i", "n", "t", "e", "r", "e", "s", "t", "i", "n", "g">>,
           <<"t", "e", "l", "l", " ", "m", "e">>,
           <<"?">>>>)
FemaleNegativeIndicators ==
    Strs(<<<<"h", "e", "y">>,
           <<"h", "i">>,
           <<"c", "u", "t", "e">>,
           <<"h", "a", "n", "d", "s", "o", "m", "e">>>>)
CasualWords ==
    Strs(<<<<"c", "o", "o", "l">>,
           <<"a", "w", "e", "s", "o", "m", "e">>,
           <<"v", "i", "b", "e">>>>)
MatureWords ==
    Strs(<<<<"i", "n", "t", "e", "r", "e", "s", "t", "i", "n", "g">>,
           <<"f", "a", "s", "c", "i", "n", "a", "t", "i", "n", "g">>,
           <<"a", "p", "p", "r", "e", "c", "i", "a", "t", "e">>>>)
YoungRange ==
    Str(<<"2", "0", "-", "2", "5">>)
MatureRange ==
    Str(<<"3", "5", "+">>)

\* The suggestion texts a call is drawn with.
\* ""
Text0 ==
    Str(<<>>)
\* "Hi"
Text1 ==
    Str(<<"H", "i">>)
\* "Hey sexy"
Text2 ==
    Str(<<"H", "e", "y", " ", "s", "e", "x", "y">>)
\* "What? How are you"
Text3 ==
    Str(<<"W", "h", "a", "t", "?", " ", "H", "o", "w", " ", "a", "r",
          "e", " ", "y", "o", "u">>)
\* "this hot photo"
Text4 ==
    Str(<<"t", "h", "i", "s", " ", "h", "o", "t", " ", "p", "h", "o",
          "t", "o">>)
\* "I love travel and adventure tell me where was this amazing photo taken?"
Text5 ==
    Str(<<"I", " ", "l", "o", "v", "e", " ", "t", "r", "a", "v", "e",
          "l", " ", "a", "n", "d", " ", "a", "d", "v", "e", "n", "t",
          "u", "r", "e", " ", "t", "e", "l", "l", " ", "m", "e", " ",
          "w", "h", "e", "r", "e", " ", "w", "a", "s", " ", "t", "h",
          "i", "s", " ", "a", "m", "a", "z", "i", "n", "g", " ", "p",
          "h", "o", "t", "o", " ", "t", "a", "k", "e", "n", "?">>)
\* "haha that is funny cool vibe on tinder"
Text6 ==
    Str(<<"h", "a", "h", "a", " ", "t", "h", "a", "t", " ", "i", "s",
          " ", "f", "u", "n", "n", "y", " ", "c", "o", "o", "l", " ",
          "v", "i", "b", "e", " ", "o", "n", " ", "t", "i", "n", "d",
          "e", "r">>)
\* "hey hi how are you what's up nice pics"
Text7 ==
    Str(<<"h", "e", "y", " ", "h", "i", " ", "h", "o", "w", " ", "a",
          "r", "e", " ", "y", "o", "u", " ", "w", "h", "a", "t", "'",
          "s", " ", "u", "p", " ", "n", "i", "c", "e", " ", "p", "i",
          "c", "s">>)
\* "sexy hot body in bed at night"
Text8 ==
    Str(<<"s", "e", "x", "y", " ", "h", "o", "t", " ", "b", "o", "d",
          "y", " ", "i", "n", " ", "b", "e", "d", " ", "a", "t", " ",
          "n", "i", "g", "h", "t">>)
\* "A fascinating culture, I appreciate it"
Text9 ==
    Str(<<"A", " ", "f", "a", "s", "c", "i", "n", "a", "t", "i", "n",
          "g", " ", "c", "u", "l", "t", "u", "r", "e", ",", " ", "I",
          " ", "a", "p", "p", "r", "e", "c", "i", "a", "t", "e", " ",
          "i", "t">>)
\* "Tell me\tmore about\nthis trip please": seven words, two of the
\* separators a tab and a line feed.
Text10 ==
    Str(<<"T", "e", "l", "l", " ", "m", "e", "\t", "m", "o", "r", "e",
          " ", "a", "b", "o", "u", "t", "\n", "t", "h", "i", "s", " ",
          "t", "r", "i", "p", " ", "p", "l", "e", "a", "s", "e">>)
\* "\u03a3\u039f\u03a6\u039f\u03a3 CAF\u00c9": Greek and Latin-1 capitals, the
\* second capital sigma in final position.
Text11 ==
    <<931, 927, 934, 927, 931>> \o Str(<<" ", "C", "A", "F">>) \o <<201>>
\* "h\u0130": lowered, "hi" and a combining dot above.
Text12 ==
    Str(<<"h">>) \o <<304>>
\* "a b c d e\u00a0f\x0bg h i j\u2003k": eleven words, three of the
\* separators a no-break space, a vertical tab and an em space.
Text13 ==
    Str(<<"a", " ", "b", " ", "c", " ", "d", " ", "e">>) \o <<160>>
        \o Str(<<"f">>) \o <<11>>
        \o Str(<<"g", " ", "h", " ", "i", " ", "j">>) \o <<8195>>
        \o Str(<<"k">>)
SampleTexts ==
    {Text0, Text1, Text2, Text3, Text4, Text5, Text6, Text7, Text8, Text9,
     Text10, Text11, Text12, Text13}

\* expected_themes of a scenario.
TravelThemes ==
    Strs(<<<<"t", "r", "a", "v", "e", "l">>,
           <<"a", "d", "v", "e", "n", "t", "u", "r", "e">>,
           <<"c", "u", "l", "t", "u", "r", "e">>>>)
SingleTheme ==
    Strs(<<<<"c", "u", "l", "t", "u", "r", "e">>>>)
ThemeLists == {<<>>, SingleTheme, TravelThemes}

\* context.app_type, context.user_gender and scenario["age_range"].
AppTypes == {Str(<<"T", "i", "n", "d", "e", "r">>),
             Str(<<"B", "u", "m", "b", "l", "e">>)}
Genders == {"male", "female"}
AgeRanges == {Str(<<"2", "0", "-", "2", "5">>),
              Str(<<"2", "5", "-", "3", "0">>),
              Str(<<"3", "5", "+">>)}

\* n tenths of 1.0, in score units.
Tenths(n) == (n * ScoreUnit) \div 10

\* -------------------------------------------------- quality_score_suggestion
Relevance(suggestion_lower, expected_themes) ==
    LET theme_matches == CountIn(expected_themes, suggestion_lower)
    IN  Min2((theme_matches * ScoreUnit) \div Max2(Len(expected_themes), 1),
             ScoreUnit)

CreativityUnfloored(suggestion_lower) ==
    ScoreUnit - CountIn(GenericPhrases, suggestion_lower) * Tenths(3)
Creativity(suggestion_lower) ==
    Max2(0, ScoreUnit - CountIn(GenericPhrases, suggestion_lower) * Tenths(3))

Appropriateness(suggestion_lower) ==
    Max2(0, ScoreUnit - CountIn(InappropriateWords, suggestion_lower) * Tenths(5))

Engagement(suggestion_lower) ==
    Min2(CountIn(EngagementIndicators, suggestion_lower) * Tenths(3), ScoreUnit)

Specificity(suggestion) ==
    IF WordCount(suggestion) > 10 THEN Tenths(8)
    ELSE IF WordCount(suggestion) > 5 THEN Tenths(5)
    ELSE Tenths(2)

QualityScoreSuggestion(suggestion, expected_themes) ==
    LET suggestion_lower == LowerText(suggestion)
    IN  [relevance |-> Relevance(suggestion_lower, expected_themes),
         creativity |-> Creativity(suggestion_lower),
         appropriateness |-> Appropriateness(suggestion_lower),
         engagement |-> Engagement(suggestion_lower),
         specificity |-> Specificity(suggestion)]

\* --------------------------------------------- score_gender_appropriateness
PositiveIndicators(user_gender) ==
    IF user_gender = "male" THEN MalePositiveIndicators
    ELSE FemalePositiveIndicators
NegativeIndicators(user_gender) ==
    IF user_gender = "male" THEN MaleNegativeIndicators
    ELSE FemaleNegativeIndicators

ScoreGenderAppropriateness(suggestion_text, user_gender) ==
    LET positive_count == CountIn(PositiveIndicators(user_gender), suggestion_text)
        negative_count == CountIn(NegativeIndicators(user_gender), suggestion_text)
        score == Min2(positive_count * Tenths(3), ScoreUnit)
                     - negative_count * Tenths(2)
    IN  Max2(0, Min2(ScoreUnit, score))

\* -------------------------------------------------- score_context_awareness
AgeBonus(suggestion_text, age_range) ==
    IF InText(YoungRange, age_range)
    THEN IF AnyIn(CasualWords, suggestion_text) THEN Tenths(1) ELSE 0
    ELSE IF InText(MatureRange, age_range)
    THEN IF AnyIn(MatureWords, suggestion_text) THEN Tenths(1) ELSE 0
    ELSE 0

ScoreContextAwarenessNoBase(suggestion_text, app_type, age_range) ==
    LET app_bonus ==
            IF InText(LowerText(app_type), suggestion_text) THEN Tenths(1) ELSE 0
    IN  Min2(ScoreUnit, app_bonus + AgeBonus(suggestion_text, age_range))
ScoreContextAwareness(suggestion_text, app_type, age_range) ==
    LET app_bonus ==
            IF InText(LowerText(app_type), suggestion_text) THEN Tenths(1) ELSE 0
    IN  Min2(ScoreUnit,
             Tenths(5) + app_bonus + AgeBonus(suggestion_text, age_range))

\* ------------------------------------------------ calculate_enhanced_scores
CalculateEnhancedScores(suggestion, rubric) ==
    LET suggestion_text == LowerText(suggestion)
    IN  [gender_appropriateness |->
             ScoreGenderAppropriateness(suggestion_text, rubric.user_gender),
         context_awareness |->
             ScoreContextAwareness(suggestion_text, rubric.app_type,
                                   rubric.age_range)]

\* ------------------------------------------------- enhanced_quality_scoring
\* The weights of the weighted overall score, in hundredths.
Metrics ==
    <<"relevance", "creativity", "appropriateness", "engagement",
      "specificity", "gender_appropriateness", "context_awareness">>
Weights ==
    [relevance |-> 25, creativity |-> 15, appropriateness |-> 20,
     engagement |-> 15, specificity |-> 10, gender_appropriateness |-> 10,
     context_awareness |-> 5]

\* combined_scores = {**basic_scores, **enhanced_scores}
CombinedScores(suggestion, rubric) ==
    LET basic_scores == QualityScoreSuggestion(suggestion, rubric.expected_themes)
        enhanced_scores == CalculateEnhancedScores(suggestion, rubric)
    IN  [metric \in DOMAIN basic_scores \cup DOMAIN enhanced_scores |->
            IF metric \in DOMAIN enhanced_scores
            THEN enhanced_scores[metric] ELSE basic_scores[metric]]

\* sum(combined_scores.get(metric, 0) * weight for metric, weight in
\* weights.items()), in units of 1 / (ScoreUnit * WeightUnit).
SuggestionScore(combined_scores) ==
    Sum([i \in DOMAIN Metrics |->
            (IF Metrics[i] \in DOMAIN combined_scores
             THEN combined_scores[Metrics[i]] ELSE 0) * Weights[Metrics[i]]])

\* What enhanced_quality_scoring computes for one suggestion of its list.
EnhancedQualityScoring(suggestion, rubric) ==
    LET combined_scores == CombinedScores(suggestion, rubric)
    IN  [combined_scores |-> combined_scores,
         suggestion_score |-> SuggestionScore(combined_scores)]

\* ---------------------------------------------------------------- ScoreSpec
Rubrics ==
    [expected_themes : ThemeLists, user_gender : Genders,
     app_type : AppTypes, age_range : AgeRanges]

IdleBase ==
    /\ IdleLoad
    /\ IdleRunner
    /\ IdleAnalysis
    /\ IdleSuite
    /\ IdleTestReport

InitScore ==
    /\ q_pc = "ready"
    /\ q_text \in SampleTexts
    /\ q_rubric \in Rubrics
    /\ q_scores = None

CallEnhancedQualityScoring ==
    /\ q_pc = "ready"
    /\ q_scores' = EnhancedQualityScoring(q_text, q_rubric)
    /\ q_pc' = "returned"
    /\ UNCHANGED <<q_text, q_rubric>>
    /\ UNCHANGED <<load_vars, runner_vars, report_vars, hybrid_vars, cycle_vars, file_vars>>

InitScoreSpec == IdleBase /\ IdleHybrid /\ NoFiles /\ IdleCycle /\ InitScore

ScoreSpec == InitScoreSpec /\ [][CallEnhancedQualityScoring]_vars

\* ------------------------------------------------------------------------
\* Properties of the suggestion scoring (ScoreSpec).
Scored == q_pc = "returned"
ScoreOf(metric) == q_scores.combined_scores[metric]

\* C21: every one of the seven criterion scores of a suggestion lies in
\* [0, 1], the weights of enhanced_quality_scoring sum to exactly 1, and the
\* suggestion's overall score is the sum of criterion score times weight and
\* so lies in [0, 1] too.
C21_ScoresAndWeights ==
    Scored =>
        /\ DOMAIN q_scores.combined_scores = {Metrics[i] : i \in DOMAIN Metrics}
        /\ \A i \in DOMAIN Metrics :
               ScoreOf(Metrics[i]) >= 0 /\ ScoreOf(Metrics[i]) <= ScoreUnit
        /\ Weights.relevance + Weights.creativity + Weights.appropriateness
               + Weights.engagement + Weights.specificity
               + Weights.gender_appropriateness + Weights.context_awareness
               = WeightUnit
        /\ q_scores.suggestion_score =
               ScoreOf("relevance") * 25 + ScoreOf("creativity") * 15
                   + ScoreOf("appropriateness") * 20 + ScoreOf("engagement") * 15
                   + ScoreOf("specificity") * 10
                   + ScoreOf("gender_appropriateness") * 10
                   + ScoreOf("context_awareness") * 5
        /\ q_scores.suggestion_score >= 0
        /\ q_scores.suggestion_score <= ScoreUnit * WeightUnit

\* A suggestion with four or more generic phrases was scored: the penalty
\* exceeds 1.0 and the floor of the creativity score acts.
C21_Witness ==
    /\ Scored
    /\ CountIn(GenericPhrases, LowerText(q_text)) >= 4
    /\ ScoreOf("creativity") = 0
    /\ q_scores.suggestion_score > 0

\* C22 as stated: scoring the empty string returns relevance, creativity,
\* appropriateness, engagement and gender_appropriateness 0, specificity at
\* its lowest tier and context_awareness at its base 0.5.
C22_EmptyTextAllFloors ==
    (Scored /\ q_text = <<>>) =>
        /\ ScoreOf("relevance") = 0
        /\ ScoreOf("creativity") = 0
        /\ ScoreOf("appropriateness") = 0
        /\ ScoreOf("engagement") = 0
        /\ ScoreOf("gender_appropriateness") = 0
        /\ ScoreOf("specificity") = Tenths(2)
        /\ ScoreOf("context_awareness") = Tenths(5)

\* C22 amended: scoring the empty string returns (it does not raise), with
\* relevance, engagement and gender_appropriateness 0, specificity at its
\* lowest tier 0.2, context_awareness at its base 0.5, and creativity and
\* appropriateness, which only lose points for phrases found in the text, at
\* 1.0.
C22_EmptyTextScores ==
    (q_text = <<>> /\ q_pc # "ready") =>
        /\ Scored
        /\ ScoreOf("relevance") = 0
        /\ ScoreOf("engagement") = 0
        /\ ScoreOf("gender_appropriateness") = 0
        /\ ScoreOf("specificity") = Tenths(2)
        /\ ScoreOf("context_awareness") = Tenths(5)
        /\ ScoreOf("creativity") = ScoreUnit
        /\ ScoreOf("appropriateness") = ScoreUnit
        /\ q_scores.suggestion_score =
               (15 + 20) * ScoreUnit + 10 * Tenths(2) + 5 * Tenths(5)

\* The empty string was scored against a rubric that has themes.
C22_Witness ==
    /\ Scored
    /\ q_text = <<>>
    /\ q_rubric.expected_themes # <<>>

\* ------------------------------------------------------------------------
\* AdvancedFlirrtAI.hybrid_analysis.  Confidences are in hundredths.
MaxGptSuggestions == 3
MaxGrokSuggestions == 2
MaxGeminiSuggestions == 2

GptModel == "gpt-4o"
GrokModel == "grok-4"
GeminiModel == "gemini-2.5-flash"

\* dict.get(key, default)
Get(d, key, default) == IF key \in DOMAIN d THEN d[key] ELSE default

\* One suggestion object of the JSON a provider answered with: "category" and
\* "confidence" may be absent.  ref tells the objects of one answer apart.
GptShapes ==
    {[category |-> "humor", confidence |-> 90],
     [category |-> "humor", confidence |-> 70],
     [category |-> "compliment", confidence |-> 90],
     [category |-> "compliment", confidence |-> 70],
     [confidence |-> 90],
     [category |-> "humor"]}
GrokShapes == {[confidence |-> 80], [confidence |-> 90], [category |-> "humor"]}
GeminiShapes == {[confidence |-> 80], [category |-> "humor", confidence |-> 90]}

WithRef(shape, ref) ==
    [key \in DOMAIN shape \cup {"ref"} |->
        IF key = "ref" THEN ref ELSE shape[key]]

SuggestionLists(shapes, max) ==
    UNION {{[i \in 1..n |-> WithRef(f[i], i)] : f \in [1..n -> shapes]} :
               n \in 0..max}

\* except json.JSONDecodeError: the answer is not JSON, and its text becomes
\* the one suggestion of a successful result.
UnparsedAnswer(shape) ==
    [success |-> TRUE, suggestions |-> <<WithRef(shape, 1)>>]

\* What analyze_with_gpt4o, analyze_with_grok and analyze_with_gemini return:
\* the parsed JSON answer as it is with success True (a list of any length
\* under "suggestions", or no such key), the result made of an answer that is
\* not JSON, or success False, which every exception is caught inside and
\* turned into.
FailedAnalysis == [success |-> FALSE]
GptResults ==
    {FailedAnalysis}
        \cup {[success |-> TRUE, suggestions |-> l] :
                  l \in SuggestionLists(GptShapes, MaxGptSuggestions)}
        \cup {[success |-> TRUE]}
        \cup {UnparsedAnswer([category |-> "general", confidence |-> 70])}
GrokResults ==
    {FailedAnalysis}
        \cup {[success |-> TRUE, suggestions |-> l] :
                  l \in SuggestionLists(GrokShapes, MaxGrokSuggestions)}
        \cup {[success |-> TRUE]}
        \cup {UnparsedAnswer([confidence |-> 75])}
GeminiResults ==
    {FailedAnalysis}
        \cup {[success |-> TRUE, suggestions |-> l] :
                  l \in SuggestionLists(GeminiShapes, MaxGeminiSuggestions)}
        \cup {[success |-> TRUE]}
        \cup {UnparsedAnswer([confidence |-> 70])}

\* if gpt_result.get("success"):
CallsEnhancement(gpt_result) == Get(gpt_result, "success", FALSE)

\* if not gpt_result.get("success"):
CallsFallbackAlways(gpt_result) == TRUE
CallsFallback(gpt_result) == ~Get(gpt_result, "success", FALSE)

\* results["models_used"].append(...) under "if ..._result.get("success")".
ModelsUsed(models_used, result, model) ==
    IF Get(result, "success", FALSE) THEN Append(models_used, model)
    ELSE models_used

\* suggestion["source"] = ...; for Grok also suggestion["category"] = "enhanced"
Tagged(suggestion, source) ==
    [key \in DOMAIN suggestion \cup {"source"} \cup
             (IF source = GrokModel THEN {"category"} ELSE {}) |->
        CASE key = "source" -> source
          [] key = "category" /\ source = GrokModel -> "enhanced"
          [] OTHER -> suggestion[key]]

TagAll(suggestions, source) ==
    [i \in DOMAIN suggestions |-> Tagged(suggestions[i], source)]

\* The loops tag the suggestion objects themselves: the lists the results
\* dict holds show the tags too.
TaggedInPlace(result, source) ==
    IF "suggestions" \in DOMAIN result
    THEN [result EXCEPT !.suggestions = TagAll(@, source)]
    ELSE result

\* all_suggestions before the sort: the primary's suggestions, then
\* results["enhanced_suggestions"].
CandidatesWithFallback(gpt_result, results) ==
    TagAll(Get(gpt_result, "suggestions", <<>>), GptModel)
        \o TagAll(results.enhanced_suggestions, GrokModel)
        \o TagAll(Get(Get(results, "fallback_analysis", FailedAnalysis),
                      "suggestions", <<>>), GeminiModel)
Candidates(gpt_result, results) ==
    TagAll(Get(gpt_result, "suggestions", <<>>), GptModel)
        \o TagAll(results.enhanced_suggestions, GrokModel)

\* key=lambda x: x.get("confidence", 0)
Confidence(suggestion) == Get(suggestion, "confidence", 0)

\* all_suggestions.sort(key=..., reverse=True): stable, equal keys keep their
\* order.
InsertByConfidence(sorted, s) ==
    LET before == SelectSeq(sorted, LAMBDA x : Confidence(x) >= Confidence(s))
        after == SelectSeq(sorted, LAMBDA x : Confidence(x) < Confidence(s))
    IN  before \o <<s>> \o after

RECURSIVE SortPrefix(_, _)
SortPrefix(all, n) ==
    IF n = 0 THEN <<>>
    ELSE InsertByConfidence(SortPrefix(all, n - 1), all[n])

SortByConfidenceSkipped(all) == all
SortByConfidence(all) == SortPrefix(all, Len(all))

Category(suggestion) == Get(suggestion, "category", "general")

\* The condition of the selection loop.
AdmitsByRankOnly(final, used_categories, suggestion) == Len(final) < FinalCap
Admits(final, used_categories, suggestion) ==
    /\ Len(final) < FinalCap
    /\ (Category(suggestion) \notin used_categories \/ Len(final) < 2)

\* for suggestion in all_suggestions: ... from position i on.
RECURSIVE SelectFrom(_, _, _, _)
SelectFrom(all, i, final, used_categories) ==
    IF i > Len(all) THEN final
    ELSE IF Admits(final, used_categories, all[i])
    THEN SelectFrom(all, i + 1, Append(final, all[i]),
                    used_categories \cup {Category(all[i])})
    ELSE SelectFrom(all, i + 1, final, used_categories)

\* while len(final_suggestions) < 3 and len(all_suggestions) > len(final_suggestions)
RECURSIVE EnsureThree(_, _)
EnsureThree(all, final) ==
    IF Len(final) < FinalCap /\ Len(all) > Len(final)
    THEN EnsureThree(all, Append(final, all[Len(final) + 1]))
    ELSE final

\* final_suggestions[:3]
FinalSuggestions(all) ==
    LET final == EnsureThree(all, SelectFrom(all, 1, <<>>, {}))
    IN  SubSeq(final, 1, Min2(Len(final), FinalCap))

\* d[key] = value
Put(d, key, value) ==
    [k \in DOMAIN d \cup {key} |-> IF k = key THEN value ELSE d[k]]

\* -------------------------------------------------------------- HybridSpec
InitHybrid ==
    /\ h_pc = "primary"
    /\ h_calls = <<>>
    /\ h_gpt = None
    /\ h_secondary = None
    /\ h_results = None
    /\ h_all = <<>>
    /\ h_record = None

\* gpt_result = self.analyze_with_gpt4o(context, image_data); results = {...}
AnalyzeWithGpt4o ==
    /\ h_pc = "primary"
    /\ \E gpt_result \in GptResults :
           /\ h_gpt' = gpt_result
           /\ h_results' = [primary_analysis |-> gpt_result,
                            enhanced_suggestions |-> <<>>,
                            models_used |-> <<GptModel>>]
    /\ h_calls' = Append(h_calls, GptModel)
    /\ h_pc' = "enhance"
    /\ UNCHANGED <<h_secondary, h_all, h_record>>
    /\ UNCHANGED <<load_vars, runner_vars, report_vars, score_vars, cycle_vars, file_vars>>

\* grok_result = self.analyze_with_grok(context, analysis_summary)
AnalyzeWithGrok ==
    /\ h_pc = "enhance"
    /\ CallsEnhancement(h_gpt)
    /\ \E grok_result \in GrokResults :
           /\ h_secondary' = grok_result
           /\ h_results' =
               [h_results EXCEPT
                   !.enhanced_suggestions =
                       IF Get(grok_result, "success", FALSE)
                       THEN Get(grok_result, "suggestions", <<>>) ELSE @,
                   !.models_used = ModelsUsed(@, grok_result, GrokModel)]
    /\ h_calls' = Append(h_calls, GrokModel)
    /\ h_pc' = "fallback"
    /\ UNCHANGED <<h_gpt, h_all, h_record>>
    /\ UNCHANGED <<load_vars, runner_vars, report_vars, score_vars, cycle_vars, file_vars>>

SkipEnhancement ==
    /\ h_pc = "enhance"
    /\ ~CallsEnhancement(h_gpt)
    /\ h_pc' = "fallback"
    /\ UNCHANGED <<h_calls, h_gpt, h_secondary, h_results, h_all, h_record>>
    /\ UNCHANGED <<load_vars, runner_vars, report_vars, score_vars, cycle_vars, file_vars>>

\* gemini_result = self.analyze_with_gemini(context, image_data)
AnalyzeWithGemini ==
    /\ h_pc = "fallback"
    /\ CallsFallback(h_gpt)
    /\ \E gemini_result \in GeminiResults :
           /\ h_secondary' = gemini_result
           /\ h_results' =
               LET used == [h_results EXCEPT
                               !.models_used =
                                   ModelsUsed(@, gemini_result, GeminiModel)]
               IN  IF Get(gemini_result, "success", FALSE)
                   THEN Put(used, "fallback_analysis", gemini_result)
                   ELSE used
    /\ h_calls' = Append(h_calls, GeminiModel)
    /\ h_pc' = "combine"
    /\ UNCHANGED <<h_gpt, h_all, h_record>>
    /\ UNCHANGED <<load_vars, runner_vars, report_vars, score_vars, cycle_vars, file_vars>>

SkipFallback ==
    /\ h_pc = "fallback"
    /\ ~CallsFallback(h_gpt)
    /\ h_pc' = "combine"
    /\ UNCHANGED <<h_calls, h_gpt, h_secondary, h_results, h_all, h_record>>
    /\ UNCHANGED <<load_vars, runner_vars, report_vars, score_vars, cycle_vars, file_vars>>

\* Combine and rank suggestions, select, return results.  gpt_result is the
\* object results["primary_analysis"] holds, and grok_result["suggestions"]
\* the list results["enhanced_suggestions"] holds: the tags show in the
\* locals too.  gemini_result is not touched.
CombineAndRank ==
    /\ h_pc = "combine"
    /\ LET all_suggestions == SortByConfidence(Candidates(h_gpt, h_results))
           tagged == [h_results EXCEPT
                         !.primary_analysis = TaggedInPlace(@, GptModel),
                         !.enhanced_suggestions = TagAll(@, GrokModel)]
       IN  /\ h_all' = all_suggestions
           /\ h_results' =
                  Put(Put(tagged, "final_suggestions",
                          FinalSuggestions(all_suggestions)),
                      "total_suggestions_generated", Len(all_suggestions))
    /\ h_gpt' = TaggedInPlace(h_gpt, GptModel)
    /\ h_secondary' =
           IF CallsEnhancement(h_gpt) /\ Get(h_secondary, "success", FALSE)
           THEN TaggedInPlace(h_secondary, GrokModel)
           ELSE h_secondary
    /\ h_pc' = "returned"
    /\ UNCHANGED <<h_calls, h_record>>
    /\ UNCHANGED <<load_vars, runner_vars, report_vars, score_vars, cycle_vars, file_vars>>

\* single_request_test, the caller of hybrid_analysis, builds its result.
RecordRequest ==
    /\ h_pc = "returned"
    /\ h_record' = SingleRequestTest(ProviderReturns(h_results.final_suggestions),
                                     RequestId(0, 0))
    /\ h_pc' = "recorded"
    /\ UNCHANGED <<h_calls, h_gpt, h_secondary, h_results, h_all>>
    /\ UNCHANGED <<load_vars, runner_vars, report_vars, score_vars, cycle_vars, file_vars>>

NextHybrid ==
    \/ AnalyzeWithGpt4o
    \/ AnalyzeWithGrok
    \/ SkipEnhancement
    \/ AnalyzeWithGemini
    \/ SkipFallback
    \/ CombineAndRank
    \/ RecordRequest

InitHybridSpec == IdleBase /\ IdleScore /\ NoFiles /\ IdleCycle /\ InitHybrid

HybridSpec == InitHybridSpec /\ [][NextHybrid]_vars

\* ------------------------------------------------------------------------
\* Properties of hybrid_analysis (HybridSpec).
HybridReturned == h_pc \in {"returned", "recorded"}
Final == h_results.final_suggestions
PrimaryFailed == ~Get(h_gpt, "success", FALSE)
Called(model) == \E i \in DOMAIN h_calls : h_calls[i] = model
Used(model) ==
    \E i \in DOMAIN h_results.models_used : h_results.models_used[i] = model
InFinal(s) == \E i \in DOMAIN Final : Final[i] = s

\* The k smallest members of a set of positions.
FirstK(S, k) == {i \in S : Cardinality({j \in S : j < i}) < k}

\* Positions of the ranked list that hold the first candidate of a category.
CategoryHeads ==
    {i \in DOMAIN h_all :
        \A j \in 1..(i - 1) : Category(h_all[j]) # Category(h_all[i])}

RankedByConfidence ==
    \A i, j \in DOMAIN h_all :
        i < j => Confidence(h_all[i]) >= Confidence(h_all[j])

\* C23 as stated: the candidates are ranked by descending confidence, the
\* best candidate of each distinct category is taken first, the ranked
\* remainder fills the slots the categories leave, and at most 3 are
\* returned.
C23_DistinctCategoriesFirst ==
    HybridReturned =>
        LET heads == FirstK(CategoryHeads, FinalCap)
            rest == FirstK(DOMAIN h_all \ CategoryHeads,
                           FinalCap - Cardinality(heads))
        IN  /\ RankedByConfidence
            /\ Len(Final) <= FinalCap
            /\ {Final[i] : i \in DOMAIN Final} =
                   {h_all[i] : i \in heads \cup rest}

\* C23 amended: the candidates are ranked by descending confidence, equal
\* confidences keeping their order (the primary's suggestions before the
\* enhanced ones); the two highest-ranked candidates are always taken, and
\* only the third slot is diversified: it goes to the highest-ranked later
\* candidate whose category differs from both, or to the third-ranked
\* candidate when there is none; at most 3 are returned.
C23_TopTwoThenDiverse ==
    HybridReturned =>
        LET fresh == {i \in DOMAIN h_all :
                         /\ i >= 3
                         /\ Category(h_all[i]) # Category(h_all[1])
                         /\ Category(h_all[i]) # Category(h_all[2])}
            third == IF fresh = {} THEN 3
                     ELSE CHOOSE i \in fresh : \A j \in fresh : i <= j
        IN  /\ RankedByConfidence
            /\ \A i, j \in DOMAIN h_all :
                   (i < j /\ Confidence(h_all[i]) = Confidence(h_all[j])) =>
                       \/ h_all[i].source = GptModel /\ h_all[j].source = GrokModel
                       \/ h_all[i].source = h_all[j].source
                              /\ h_all[i].ref < h_all[j].ref
            /\ Len(Final) <= FinalCap
            /\ Len(h_all) <= 2 => Final = h_all
            /\ Len(h_all) >= 3 => Final = <<h_all[1], h_all[2], h_all[third]>>

\* Four candidates were ranked and the third-ranked one was passed over for a
\* later candidate of a new category.
C23_Witness ==
    /\ HybridReturned
    /\ Len(h_all) >= 4
    /\ Len(Final) = 3
    /\ Final[3] # h_all[3]
    /\ Category(h_all[3]) \in {Category(h_all[1]), Category(h_all[2])}

\* C27: when the primary analysis failed, final_suggestions is empty, also
\* when the Gemini fallback succeeded and returned suggestions, and the load
\* tester records the request with success = false.
C27_PrimaryFailureLeavesNoSuggestions ==
    (HybridReturned /\ PrimaryFailed) =>
        /\ Final = <<>>
        /\ h_results.total_suggestions_generated = 0
        /\ h_pc = "recorded" =>
               /\ h_record.success = FALSE
               /\ h_record.suggestions_count = 0

\* The primary failed, the fallback succeeded with two suggestions, and the
\* request was recorded as failed.
C27_Witness ==
    /\ h_pc = "recorded"
    /\ PrimaryFailed
    /\ "fallback_analysis" \in DOMAIN h_results
    /\ Len(Get(h_results.fallback_analysis, "suggestions", <<>>)) = 2
    /\ Used(GeminiModel)
    /\ h_record.success = FALSE

\* C28: the primary model is called first and exactly once; Grok is called
\* only after the primary succeeded and Gemini only after it failed, never
\* both; models_used begins with the primary model and lists a secondary
\* model only if that secondary call was made and succeeded.
C28_CallOrder ==
    /\ h_pc \notin {"idle", "primary"} =>
           /\ h_calls[1] = GptModel
           /\ Cardinality({i \in DOMAIN h_calls : h_calls[i] = GptModel}) = 1
           /\ h_results.models_used[1] = GptModel
           /\ Len(h_results.models_used) <= 2
    /\ h_pc \in {"idle", "primary"} => h_calls = <<>>
    /\ Called(GrokModel) => ~PrimaryFailed
    /\ Called(GeminiModel) => PrimaryFailed
    /\ ~(Called(GrokModel) /\ Called(GeminiModel))
    /\ Len(h_calls) <= 2
    /\ h_pc \notin {"idle", "primary"} =>
           \A model \in {GrokModel, GeminiModel} :
               Used(model) <=>
                   (Called(model) /\ Get(h_secondary, "success", FALSE))

\* A call in which Grok was called and failed, so that models_used names the
\* primary model alone.
C28_Witness ==
    /\ HybridReturned
    /\ h_calls = <<GptModel, GrokModel>>
    /\ ~Get(h_secondary, "success", FALSE)
    /\ h_results.models_used = <<GptModel>>

\* C29: with m candidates, final_suggestions has exactly min(3, m) entries,
\* holds no candidate twice, is in non-increasing confidence order and
\* contains the two highest-ranked candidates when m >= 2.
C29_FinalSuggestionsShape ==
    HybridReturned =>
        LET m == h_results.total_suggestions_generated
        IN  /\ m = Len(h_all)
            /\ Len(Final) = Min2(3, m)
            /\ \A i, j \in DOMAIN Final : i # j => Final[i] # Final[j]
            /\ \A i \in DOMAIN Final : \E k \in DOMAIN h_all : h_all[k] = Final[i]
            /\ \A i, j \in DOMAIN Final :
                   i < j => Confidence(Final[i]) >= Confidence(Final[j])
            /\ m >= 2 => InFinal(h_all[1]) /\ InFinal(h_all[2])

\* Three or more candidates, none after the second of a new category: the
\* selection loop stops at two and the third slot is filled afterwards.
C29_Witness ==
    /\ HybridReturned
    /\ Len(h_all) >= 3
    /\ \A i \in 3..Len(h_all) :
           Category(h_all[i]) \in {Category(h_all[1]), Category(h_all[2])}
    /\ Len(Final) = 3
    /\ Confidence(Final[1]) > Confidence(Final[3])

\* ------------------------------------------------------------------------
\* Properties of the report file and of the request ids.

\* The fields of a written report document.
WellFormedReport(doc, results) ==
    /\ DOMAIN doc = {"test_name", "config", "results", "analysis", "timestamp"}
    /\ doc.results = results

\* C24: each load-test run writes its report document exactly once, only
\* after every worker has finished and the analysis has been computed; no
\* report is written while a worker is running, and the document holds the
\* config, all collected results, the analysis and a timestamp.
C24_ReportWrittenOncePerRun ==
    /\ Len(report_files) = Len(suite_results) + (IF main_pc = "done" THEN 1 ELSE 0)
    /\ Active # {} => report_files = <<>>
    /\ main_pc = "done" =>
           /\ WellFormedReport(report_files[1], all_results)
           /\ report_files[1].config = config
           /\ report_files[1].analysis = analysis
           /\ \A u \in Users : pc[u] \in {"returned", "raised"}

\* C25: every request_id holds the worker's id and the request's sequence
\* number: no two results of a run share a request_id, the results of a worker
\* carry the numbers 0, 1, 2, ... in the order the requests were issued, and
\* they are in that order in all_results.
C25_RequestIdsUniqueAndOrdered ==
    /\ \A u \in Users : \A i \in DOMAIN user_results[u] :
           /\ user_results[u][i].request_id[2] = u
           /\ user_results[u][i].request_id[4] = i - 1
           /\ user_results[u][i].user_id = u
    /\ \A u, v \in Users :
           \A i \in DOMAIN user_results[u] : \A j \in DOMAIN user_results[v] :
               (u # v \/ i # j) =>
                   user_results[u][i].request_id # user_results[v][j].request_id
    /\ \A i, j \in DOMAIN all_results :
           i # j => all_results[i].request_id # all_results[j].request_id
    /\ \A i, j \in DOMAIN all_results :
           (i < j /\ all_results[i].request_id[2] = all_results[j].request_id[2])
               => all_results[i].request_id[4] < all_results[j].request_id[4]

\* A finished run of two workers with two requests each, worker 1 collected
\* before worker 0.
C25_Witness ==
    /\ main_pc = "done"
    /\ Len(all_results) = 4
    /\ all_results[1].request_id = <<"user", 1, "req", 0>>
    /\ all_results[2].request_id = <<"user", 1, "req", 1>>
    /\ all_results[3].request_id = <<"user", 0, "req", 0>>

\* C26: analyze_load_test_results returns a full report for every non-empty
\* batch, also when failed results carry error None: the counts of the error
\* frequency table sum to the number of failed results and the
\* recommendations are there.
C26_NoneErrorsAnalyzed ==
    (a_pc \notin {"idle", "ready"} /\ batch # <<>>) =>
        /\ a_pc = "returned"
        /\ load_report.error = None
        /\ Sum([i \in DOMAIN load_report.error_analysis.error_types |->
                   load_report.error_analysis.error_types[i][2]])
               = Len(FailedResults(batch))
        /\ Len(load_report.recommendations) > 0

\* ------------------------------------------------------------------------
\* IterativeTestingSystem.run_iterative_improvement_cycle.  Scores and rates
\* are in thousandths.
MaxIterations == 3

\* What run_comprehensive_test_suite returns to the cycle: an error report
\* (no test images, or no successful test), or a report with
\* overall_statistics.
CycleScores == {550, 700, 850}
CycleReports ==
    {[error |-> "No test images found"],
     [error |-> "No successful tests to analyze"]}
        \cup {[error |-> None,
               overall_statistics |-> [average_score |-> s, success_rate |-> 1000]] :
                  s \in CycleScores}

\* iteration_data
IterationData(iteration, report) == [iteration |-> iteration, report |-> report]

\* "if iteration > 1:" reads iteration_results[-2], which raises IndexError
\* unless two iterations have been recorded.
ChecksImprovement(iteration) == iteration > 1
ImprovementCheckRaises(iteration, results) ==
    ChecksImprovement(iteration) /\ Len(results) < 2

\* list.index(max(...)) + 1 and list.index(min(...)) + 1
IndexOfMax(scores) ==
    CHOOSE i \in DOMAIN scores :
        /\ \A j \in DOMAIN scores : scores[j] <= scores[i]
        /\ \A j \in 1..(i - 1) : scores[j] < scores[i]
IndexOfMin(scores) ==
    CHOOSE i \in DOMAIN scores :
        /\ \A j \in DOMAIN scores : scores[j] >= scores[i]
        /\ \A j \in 1..(i - 1) : scores[j] > scores[i]

\* generate_improvement_cycle_report (without the rounded ratios and the
\* texts of final_assessment and next_steps).
GenerateImprovementCycleReport(results) ==
    IF results = <<>>
    THEN [error |-> "No iteration results to analyze"]
    ELSE
    LET scores_over_time ==
            [i \in DOMAIN results |->
                results[i].report.overall_statistics.average_score]
        success_rates_over_time ==
            [i \in DOMAIN results |->
                results[i].report.overall_statistics.success_rate]
        initial_score == scores_over_time[1]
        final_score == scores_over_time[Len(scores_over_time)]
    IN  [error |-> None,
         cycle_summary |->
             [total_iterations |-> Len(results),
              initial_score |-> initial_score,
              final_score |-> final_score,
              total_improvement |-> final_score - initial_score,
              consistent_improvement |->
                  \A i \in 2..Len(scores_over_time) :
                      scores_over_time[i] - scores_over_time[i - 1] >= 0],
         performance_trend |->
             [scores_over_time |-> scores_over_time,
              success_rates_over_time |-> success_rates_over_time,
              best_iteration |-> IndexOfMax(scores_over_time),
              worst_iteration |-> IndexOfMin(scores_over_time)]]

\* ---------------------------------------------------------------- CycleSpec
InitCycle ==
    /\ c_pc = "loop"
    /\ c_iterations \in 0..MaxIterations
    /\ c_iteration = 1
    /\ iteration_results = <<>>
    /\ c_failed = {}
    /\ c_exception = None
    /\ c_final_report = None

\* One pass of "for iteration in range(1, iterations + 1)" in which
\* run_comprehensive_test_suite raises: run_single_test lets the
\* AttributeError of enhanced_quality_scoring on a null suggestion text
\* escape (EnhancedQualityScoringRaises), the suite and the cycle have no
\* try/except around it, and the exception leaves the cycle at the call of
\* the suite with nothing recorded for the iteration.
SuiteRaises ==
    /\ c_pc = "loop"
    /\ c_iteration <= c_iterations
    /\ \E outcome \in Outcomes : RunSingleTest(TRUE, outcome).status = "escaped"
    /\ c_pc' = "raised"
    /\ c_exception' = "AttributeError"
    /\ UNCHANGED <<c_iterations, c_iteration, iteration_results, c_failed,
                   c_final_report>>
    /\ UNCHANGED <<load_vars, runner_vars, report_vars, score_vars, hybrid_vars,
                   file_vars>>

\* One pass on a report with an "error" key: print and continue.
FailedIteration ==
    /\ c_pc = "loop"
    /\ c_iteration <= c_iterations
    /\ \E report \in CycleReports : report.error # None
    /\ c_failed' = c_failed \cup {c_iteration}
    /\ c_iteration' = c_iteration + 1
    /\ UNCHANGED <<c_pc, c_iterations, iteration_results, c_exception,
                   c_final_report>>
    /\ UNCHANGED <<load_vars, runner_vars, report_vars, score_vars, hybrid_vars,
                   file_vars>>

\* One pass on a report without "error": the iteration is recorded, its
\* summary printed and its score compared with the previous one.
RecordedIteration ==
    /\ c_pc = "loop"
    /\ c_iteration <= c_iterations
    /\ \E report \in CycleReports :
           /\ report.error = None
           /\ iteration_results' =
                  Append(iteration_results, IterationData(c_iteration, report))
    /\ IF ImprovementCheckRaises(c_iteration, iteration_results')
       THEN /\ c_pc' = "raised"
            /\ c_exception' = "IndexError"
            /\ c_iteration' = c_iteration
       ELSE /\ c_pc' = c_pc
            /\ c_exception' = c_exception
            /\ c_iteration' = c_iteration + 1
    /\ UNCHANGED <<c_iterations, c_failed, c_final_report>>
    /\ UNCHANGED <<load_vars, runner_vars, report_vars, score_vars, hybrid_vars,
                   file_vars>>

\* final_report = self.generate_improvement_cycle_report(iteration_results);
\* the cycle file is written and final_report returned.
ReturnCycleReport ==
    /\ c_pc = "loop"
    /\ c_iteration > c_iterations
    /\ c_final_report' = GenerateImprovementCycleReport(iteration_results)
    /\ c_pc' = "done"
    /\ UNCHANGED <<c_iterations, c_iteration, iteration_results, c_failed,
                   c_exception>>
    /\ UNCHANGED <<load_vars, runner_vars, report_vars, score_vars, hybrid_vars,
                   file_vars>>

NextCycle ==
    \/ SuiteRaises
    \/ FailedIteration
    \/ RecordedIteration
    \/ ReturnCycleReport

InitCycleSpec == IdleBase /\ IdleScore /\ IdleHybrid /\ NoFiles /\ InitCycle

CycleSpec == InitCycleSpec /\ [][NextCycle]_vars

\* ------------------------------------------------------------------------
\* Properties of the improvement cycle (CycleSpec).
Recorded == {iteration_results[i].iteration : i \in DOMAIN iteration_results}

\* C30: run_iterative_improvement_cycle does not raise whatever iterations
\* fail: a failed iteration is skipped and only the others are recorded, the
\* comparison of scores finds a previously recorded iteration, and the call
\* returns the cycle report, or the error report when no iteration succeeded.
C30_FailedIterationsSkipped ==
    /\ c_exception # "IndexError"
    /\ c_failed \cap Recorded = {}
    /\ c_pc \in {"loop", "done"} =>
           c_failed \cup Recorded = 1..(c_iteration - 1)
    /\ c_pc = "done" =>
           /\ c_iteration = c_iterations + 1
           /\ iteration_results = <<>> =>
                  c_final_report = [error |-> "No iteration results to analyze"]
           /\ iteration_results # <<>> =>
                  /\ c_final_report.error = None
                  /\ c_final_report.cycle_summary.total_iterations
                         = Len(iteration_results)

====
